---------------------------- MODULE Spec2Model ----------------------------
(***************************************************************************)
(* Verification model of the plover dictionary layer:                      *)
(*   - SimilarSearchDict        (plover/dictionary/base.py)                *)
(*   - StenoDictionary and StenoDictionaryCollection                       *)
(*                              (plover/steno_dictionary.py)               *)
(*   - normalize_stroke         (plover/steno.py)                          *)
(* Python strings are sequences of character codes, so that str.lower,     *)
(* string comparison and str.startswith are computed rather than assumed.  *)
(***************************************************************************)
EXTENDS Integers, Sequences, FiniteSets, TLC

VARIABLES
    ssd_d,       \* SimilarSearchDict: the underlying dict (key -> value)
    ssd_list,    \* SimilarSearchDict._list: sequence of <<simkey, rawkey>>
    ssd_flag,    \* SimilarSearchDict._needs_sorting
    ssd_dead,    \* history: keys deleted (or cleared) and not re-inserted
    ssd_ret,     \* last SimilarSearchDict call: [op, key, count, fn, result]
    n_in,        \* normalize_stroke: the stroke text given
    n_out,       \* normalize_stroke: the results of the successive applications
    pool,        \* the StenoDictionary objects, by path
    order,       \* StenoDictionaryCollection.dicts, as the paths of its members
    filters,     \* StenoDictionaryCollection.filters
    ret,         \* last StenoDictionary call: [op, err]
    qret,        \* last StenoDictionaryCollection query: [op, arg, count, interned, result]
    disk,        \* the file system: file name -> [content, mtime] of the files that exist
    th,          \* the threads started by the save wrappers, in the order of their start
    lock,        \* the lock of each wrapped save: path -> its holder (0 when free)
    timestamp,   \* StenoDictionary.timestamp of each instance, by path
    pressed,     \* Stroke: the container of pressed keys given to the constructor
    strokes,     \* Stroke: the strokes constructed, <<>> before the call
    engine,      \* set_config: the configuration behind the engine (option -> value)
    cmd          \* set_config: the last command line and its outcome

ssd_vars == <<ssd_d, ssd_list, ssd_flag, ssd_dead, ssd_ret>>
n_vars == <<n_in, n_out>>
c_vars == <<pool, order, filters, ret, qret>>
s_vars == <<disk, th, lock, timestamp>>
k_vars == <<pressed, strokes>>
g_vars == <<engine, cmd>>
vars == <<ssd_vars, n_vars, c_vars, s_vars, k_vars, g_vars>>

(***************************************************************************)
(* Bounds of the model.                                                    *)
(***************************************************************************)
MaxCount == 2    \* count arguments are None or 0..MaxCount
MaxUpdate == 2   \* update is called with at most MaxUpdate items
MaxLen == 3      \* stroke texts given to normalize_stroke have at most MaxLen characters
MaxFilters == 2  \* at most MaxFilters lookup filters are registered
MaxPaths == 2    \* save is called with at most MaxPaths paths

(***************************************************************************)
(* Python strings and tuples.                                              *)
(***************************************************************************)
\* str.lower on ASCII
Lower(s) == [i \in 1..Len(s) |-> IF s[i] >= 65 /\ s[i] <= 90 THEN s[i] + 32 ELSE s[i]]

\* s < t for Python strings (lexicographic on code points)
StrLess(s, t) ==
    \E i \in 1..Len(t) :
        /\ \A j \in 1..(i - 1) : j <= Len(s) /\ s[j] = t[j]
        /\ (i > Len(s) \/ s[i] < t[i])

\* s.startswith(p)
StartsWith(s, p) == Len(p) <= Len(s) /\ \A i \in 1..Len(p) : s[i] = p[i]

\* p < q for Python tuples of strings (a proper prefix is the smaller one)
TupLess(p, q) ==
    \E i \in 1..Len(q) :
        /\ \A j \in 1..(i - 1) : j <= Len(p) /\ p[j] = q[j]
        /\ (i > Len(p) \/ StrLess(p[i], q[i]))

\* the elements of a sequence
Range(s) == {s[i] : i \in 1..Len(s)}

NoDup(s) == \A i, j \in 1..Len(s) : i # j => s[i] # s[j]

\* the sequence without its element at (1-based) position i: del s[i-1]
DelAt(s, i) == [j \in 1..(Len(s) - 1) |-> IF j < i THEN s[j] ELSE s[j + 1]]

\* an optional integer argument: <<>> is None, <<n>> is n
Counts == {<<>>} \cup {<<n>> : n \in 0..MaxCount}

(***************************************************************************)
(* list.sort() on tuples: a stable insertion sort by TupLess.              *)
(***************************************************************************)
RECURSIVE InsertSorted(_, _)
InsertSorted(s, x) ==
    IF s = <<>> THEN <<x>>
    ELSE IF TupLess(x, Head(s)) THEN <<x>> \o s
    ELSE <<Head(s)>> \o InsertSorted(Tail(s), x)

RECURSIVE SortList(_)
SortList(s) ==
    IF s = <<>> THEN <<>>
    ELSE InsertSorted(SortList(SubSeq(s, 1, Len(s) - 1)), s[Len(s)])

IsSorted(s) == \A i \in 1..(Len(s) - 1) : ~TupLess(s[i + 1], s[i])

(***************************************************************************)
(* bisect.bisect_left(a, x): 0-based insertion point, computed by the      *)
(* binary search of the library whatever the order of the list.            *)
(***************************************************************************)
RECURSIVE Bisect(_, _, _, _)
Bisect(a, x, lo, hi) ==
    IF lo < hi
    THEN LET mid == (lo + hi) \div 2
         IN IF TupLess(a[mid + 1], x) THEN Bisect(a, x, mid + 1, hi)
                                       ELSE Bisect(a, x, lo, mid)
    ELSE lo

bisect_left(a, x) == Bisect(a, x, 0, Len(a))

(***************************************************************************)
(* SimilarSearchDict.  An instance is the record [d, list, flag].          *)
(***************************************************************************)
\* The keys used with the similarity index: "A", "a", "ab", "b"
SSDKeys == {<<65>>, <<97>>, <<97, 98>>, <<98>>}
\* the values stored (opaque to the index)
SSDVals == {"v1", "v2"}

\* the similarity function handed to the constructor (case folding)
simfn(k) == Lower(k)

\* the filter functions handed to filter_keys
FilterFns == {"none", "eq", "startswith"}
filterfn(fn, sk, simkey) ==
    CASE fn = "eq" -> sk = simkey
      [] fn = "startswith" -> StartsWith(sk, simkey)
      [] OTHER -> TRUE

SSD_sort(s) == [s EXCEPT !.list = SortList(s.list), !.flag = FALSE]

SSD_clear(s) == [s EXCEPT !.d = <<>>, !.list = <<>>]

\* mutant: __setitem__ appends a new key without setting the sort flag
SSD_setitem_noflag(s, k, v) ==
    LET s1 == IF k \notin DOMAIN s.d
              THEN [s EXCEPT !.list = Append(s.list, <<simfn(k), k>>)]
              ELSE s
    IN [s1 EXCEPT !.d = [x \in (DOMAIN s.d) \cup {k} |-> IF x = k THEN v ELSE s.d[x]]]

SSD_setitem(s, k, v) ==
    LET s1 == IF k \notin DOMAIN s.d
              THEN [s EXCEPT !.list = Append(s.list, <<simfn(k), k>>), !.flag = TRUE]
              ELSE s
    IN [s1 EXCEPT !.d = [x \in (DOMAIN s.d) \cup {k} |-> IF x = k THEN v ELSE s.d[x]]]

\* mutant: __delitem__ bisects the list without sorting it first
SSD_delitem_unsorted(s, k) ==
    IF k \in DOMAIN s.d
    THEN LET s1 == [s EXCEPT !.d = [x \in (DOMAIN s.d) \ {k} |-> s.d[x]]]
             idx == bisect_left(s1.list, <<simfn(k), k>>)
         IN IF idx < Len(s1.list) THEN [s1 EXCEPT !.list = DelAt(s1.list, idx + 1)]
                                  ELSE s1
    ELSE s

SSD_delitem(s, k) ==
    IF k \in DOMAIN s.d
    THEN LET s1 == [s EXCEPT !.d = [x \in (DOMAIN s.d) \ {k} |-> s.d[x]]]
             s2 == IF s1.flag THEN SSD_sort(s1) ELSE s1
             idx == bisect_left(s2.list, <<simfn(k), k>>)
         IN [s2 EXCEPT !.list = DelAt(s2.list, idx + 1)]
    ELSE s

\* dict(*args).items() is iterated in the insertion order of the argument;
\* the argument is given as a sequence of <<key, value>> pairs.
RECURSIVE SSD_setall(_, _)
SSD_setall(s, items) ==
    IF items = <<>> THEN s
    ELSE SSD_setall(SSD_setitem(s, items[1][1], items[1][2]), Tail(items))

\* the dict built from a sequence of pairs (a later pair overrides)
DictOf(items) ==
    [k \in {items[i][1] : i \in 1..Len(items)} |->
        items[CHOOSE i \in 1..Len(items) :
                  /\ items[i][1] = k
                  /\ \A j \in (i + 1)..Len(items) : items[j][1] # k][2]]

\* the keys of the dict built from a sequence of pairs, in insertion order
RECURSIVE KeyOrder(_)
KeyOrder(items) ==
    IF items = <<>> THEN <<>>
    ELSE LET r == KeyOrder(SubSeq(items, 1, Len(items) - 1))
             k == items[Len(items)][1]
         IN IF k \in Range(r) THEN r ELSE Append(r, k)

SSD_update(s, items) ==
    LET s1 == IF DOMAIN s.d = {}
              THEN LET ks == KeyOrder(items)
                   IN [s EXCEPT !.d = DictOf(items),
                                !.list = [i \in 1..Len(ks) |-> <<simfn(ks[i]), ks[i]>>]]
              ELSE LET ks == KeyOrder(items)
                       d == DictOf(items)
                   IN SSD_setall(s, [i \in 1..Len(ks) |-> <<ks[i], d[ks[i]]>>])
    IN SSD_sort(s1)

\* _index_left: the instance after the lazy sort, and the index found
SSD_index_left(s, k) ==
    LET s1 == IF s.flag THEN SSD_sort(s) ELSE s
    IN [s |-> s1, idx |-> bisect_left(s1.list, <<simfn(k)>>)]

\* the while loop of filter_keys, from 0-based index idx
RECURSIVE FilterScan(_, _, _, _, _, _)
FilterScan(list, simkey, count, fn, idx, keys) ==
    IF idx < Len(list)
    THEN LET sk == list[idx + 1][1]
             rk == list[idx + 1][2]
         IN IF fn # "none" /\ ~filterfn(fn, sk, simkey) THEN keys
            ELSE LET keys1 == Append(keys, rk)
                 IN IF count # <<>> /\ Len(keys1) >= count[1] THEN keys1
                    ELSE FilterScan(list, simkey, count, fn, idx + 1, keys1)
    ELSE keys

\* filter_keys: the instance after the call, and the keys returned
SSD_filter_keys(s, k, count, fn) ==
    LET r == SSD_index_left(s, k)
    IN [s |-> r.s, keys |-> FilterScan(r.s.list, simfn(k), count, fn, r.idx, <<>>)]

SSD_get_similar_keys(s, k, count) == SSD_filter_keys(s, k, count, "eq")

(***************************************************************************)
(* The similarity index as a state machine.                                *)
(***************************************************************************)
ssd == [d |-> ssd_d, list |-> ssd_list, flag |-> ssd_flag]

SSDPut(s) ==
    /\ ssd_d' = s.d
    /\ ssd_list' = s.list
    /\ ssd_flag' = s.flag

NoKey == <<>>

SSDRet(op, k, count, fn, result) ==
    [op |-> op, key |-> k, count |-> count, fn |-> fn, result |-> result]

\* the arguments of update: at most MaxUpdate pairs with distinct keys.  The
\* list is sorted before update returns, so the order in which the argument
\* is iterated cannot be observed; one order (ascending keys) is drawn.
UpdateArgs ==
    {items \in UNION {[1..n -> SSDKeys \X SSDVals] : n \in 0..MaxUpdate} :
        \A i \in 1..(Len(items) - 1) : StrLess(items[i][1], items[i + 1][1])}

\* the variables of the other components, at rest
NormIdle == n_in = <<>> /\ n_out = <<>>
SSDIdle ==
    /\ ssd_d = <<>>
    /\ ssd_list = <<>>
    /\ ssd_flag = FALSE
    /\ ssd_dead = {}
    /\ ssd_ret = SSDRet("init", NoKey, <<>>, "none", <<>>)

CollIdle ==
    /\ pool = <<>>
    /\ order = <<>>
    /\ filters = <<>>
    /\ ret = [op |-> "init", err |-> "ok"]
    /\ qret = [op |-> "none"]

SaveIdle == disk = <<>> /\ th = <<>> /\ lock = <<>> /\ timestamp = <<>>
StrokeIdle == pressed = <<>> /\ strokes = <<>>
ConfigIdle == engine = <<>> /\ cmd = <<>>

InitSSD ==
    /\ SaveIdle /\ StrokeIdle /\ ConfigIdle
    /\ NormIdle
    /\ CollIdle
    /\ ssd_d = <<>>
    /\ ssd_list = <<>>
    /\ ssd_flag = FALSE
    /\ ssd_dead = {}
    /\ ssd_ret = SSDRet("init", NoKey, <<>>, "none", <<>>)

SSDSetItem ==
    \E k \in SSDKeys, v \in SSDVals :
        /\ SSDPut(SSD_setitem(ssd, k, v))
        /\ ssd_dead' = ssd_dead \ {k}
        /\ ssd_ret' = SSDRet(IF k \in DOMAIN ssd_d THEN "overwrite" ELSE "insert",
                             NoKey, <<>>, "none", <<>>)

SSDDelItem ==
    \E k \in SSDKeys :
        /\ SSDPut(SSD_delitem(ssd, k))
        /\ ssd_dead' = IF k \in DOMAIN ssd_d THEN ssd_dead \cup {k} ELSE ssd_dead
        /\ ssd_ret' = SSDRet("delitem", NoKey, <<>>, "none", <<>>)

SSDUpdate ==
    \E items \in UpdateArgs :
        /\ SSDPut(SSD_update(ssd, items))
        /\ ssd_dead' = ssd_dead \ Range([i \in 1..Len(items) |-> items[i][1]])
        /\ ssd_ret' = SSDRet("update", NoKey, <<>>, "none", <<>>)

SSDClear ==
    /\ SSDPut(SSD_clear(ssd))
    /\ ssd_dead' = ssd_dead \cup DOMAIN ssd_d
    /\ ssd_ret' = SSDRet("clear", NoKey, <<>>, "none", <<>>)

SSDFilterKeys ==
    \E k \in SSDKeys, count \in Counts, fn \in FilterFns \ {"eq"} :
        LET r == SSD_filter_keys(ssd, k, count, fn)
        IN /\ SSDPut(r.s)
           /\ UNCHANGED ssd_dead
           /\ ssd_ret' = SSDRet("filter_keys", k, count, fn, r.keys)

SSDGetSimilarKeys ==
    \E k \in SSDKeys, count \in Counts :
        LET r == SSD_get_similar_keys(ssd, k, count)
        IN /\ SSDPut(r.s)
           /\ UNCHANGED ssd_dead
           /\ ssd_ret' = SSDRet("get_similar_keys", k, count, "eq", r.keys)

\* setdefault, pop, popitem: each returns the class NotImplementedError and
\* touches neither the dict nor the list
SSDUnsafe ==
    \E op \in {"setdefault", "pop", "popitem"} :
        /\ SSDPut(ssd)
        /\ UNCHANGED ssd_dead
        /\ ssd_ret' = SSDRet(op, NoKey, <<>>, "none", <<>>)

NextSSD ==
    \/ SSDUnsafe /\ UNCHANGED <<n_vars, c_vars, s_vars, k_vars, g_vars>>
    \/ SSDSetItem /\ UNCHANGED <<n_vars, c_vars, s_vars, k_vars, g_vars>>
    \/ SSDDelItem /\ UNCHANGED <<n_vars, c_vars, s_vars, k_vars, g_vars>>
    \/ SSDUpdate /\ UNCHANGED <<n_vars, c_vars, s_vars, k_vars, g_vars>>
    \/ SSDClear /\ UNCHANGED <<n_vars, c_vars, s_vars, k_vars, g_vars>>
    \/ SSDFilterKeys /\ UNCHANGED <<n_vars, c_vars, s_vars, k_vars, g_vars>>
    \/ SSDGetSimilarKeys /\ UNCHANGED <<n_vars, c_vars, s_vars, k_vars, g_vars>>

SpecSSD == InitSSD /\ [][NextSSD]_vars

(***************************************************************************)
(* C4: a get_similar_keys(q) call with no count returns exactly the live   *)
(* keys whose similarity key equals that of q, each exactly once, whatever *)
(* insertions, overwrites, deletions, updates and clears came before.      *)
(***************************************************************************)
C4_SimilarExact ==
    (ssd_ret.op = "get_similar_keys" /\ ssd_ret.count = <<>>) =>
        /\ Range(ssd_ret.result) =
               {k \in DOMAIN ssd_d : simfn(k) = simfn(ssd_ret.key)}
        /\ NoDup(ssd_ret.result)
        /\ Range(ssd_ret.result) \cap ssd_dead = {}

\* a query that returns one live key of a class whose other key was deleted
C4_Witness ==
    /\ ssd_ret.op = "get_similar_keys"
    /\ ssd_ret.count = <<>>
    /\ Len(ssd_ret.result) = 1
    /\ \E k \in ssd_dead : simfn(k) = simfn(ssd_ret.key)

(***************************************************************************)
(* C19: filter_keys(q, count, pred) returns, in ascending (similarity-key, *)
(* original-key) order, the original keys of the longest contiguous run of *)
(* entries that starts at the leftmost position whose similarity key is    *)
(* >= simfn(q) and on which pred holds, truncated to at most count keys    *)
(* for every count >= 0.                                                   *)
(***************************************************************************)
C19_FilterKeys ==
    ssd_ret.op \in {"filter_keys", "get_similar_keys"} =>
        LET q == simfn(ssd_ret.key)
            n == Len(ssd_list)
            P == {i \in 1..n : ~StrLess(ssd_list[i][1], q)}
            start == IF P = {} THEN n + 1 ELSE CHOOSE i \in P : \A j \in P : i <= j
            E == {j \in (start - 1)..n :
                     \A i \in start..j : filterfn(ssd_ret.fn, ssd_list[i][1], q)}
            run == (CHOOSE j \in E : \A i \in E : i <= j) - start + 1
            m == IF ssd_ret.count # <<>> /\ ssd_ret.count[1] < run
                 THEN ssd_ret.count[1] ELSE run
        IN ssd_ret.result = [i \in 1..m |-> ssd_list[start + i - 1][2]]

(***************************************************************************)
(* C20: lazy-sort invariant.  Whenever _needs_sorting is false the list is *)
(* sorted ascending; update returns with the flag false and the list       *)
(* sorted; the flag becomes true only by the insertion of a new key;       *)
(* overwriting the value of an existing key changes neither the list nor   *)
(* the flag.                                                               *)
(***************************************************************************)
C20_LazySort ==
    /\ [](~ssd_flag => IsSorted(ssd_list))
    /\ [][/\ ssd_ret'.op = "update" => (~ssd_flag' /\ IsSorted(ssd_list'))
          /\ (ssd_flag' /\ ~ssd_flag) => ssd_ret'.op = "insert"
          /\ ssd_ret'.op = "overwrite" =>
                 (ssd_list' = ssd_list /\ ssd_flag' = ssd_flag)]_vars

\* a value was overwritten while the list, out of order, waits for its sort
C20_Witness ==
    /\ ssd_ret.op = "overwrite"
    /\ ssd_flag
    /\ ~IsSorted(ssd_list)

(***************************************************************************)
(* normalize_stroke (plover/steno.py).                                     *)
(***************************************************************************)
\* the characters stroke texts are drawn from: # - 1 5 6 A S
StrokeChars == {35, 45, 49, 53, 54, 65, 83}

HYPHEN == <<45>>

\* _NUMBERS = set('0123456789')
NUMBERS_ == 48..57

\* system.NUMBER_KEY: '#'
NUMBER_KEY == <<35>>

\* system.IMPLICIT_HYPHENS of the English stenotype system: A O 5 0 E U *
IMPLICIT_HYPHENS == {65, 79, 53, 48, 69, 85, 42}

\* str.replace(c, ''): the string without the character c
RECURSIVE RemoveChar(_, _)
RemoveChar(s, c) ==
    IF s = <<>> THEN <<>>
    ELSE IF Head(s) = c THEN RemoveChar(Tail(s), c)
    ELSE <<Head(s)>> \o RemoveChar(Tail(s), c)

\* _IMPLICIT_NUMBER_RX.search(s), '(^|[1-4])([6-9])': <<>> when there is no
\* match, else <<m.start(2)>> of the leftmost match (0-based)
ImplicitNumberSearch(s) ==
    IF Len(s) > 0 /\ s[1] \in 54..57 THEN <<0>>
    ELSE LET I == {i \in 1..(Len(s) - 1) : s[i] \in 49..52 /\ s[i + 1] \in 54..57}
         IN IF I = {} THEN <<>>
            ELSE <<CHOOSE i \in I : \A j \in I : i <= j>>

normalize_stroke(stroke) ==
    LET letters == Range(stroke)
        hasNumbers == letters \cap NUMBERS_ # {}
        stroke1 == IF hasNumbers /\ NUMBER_KEY[1] \in letters
                   THEN RemoveChar(stroke, NUMBER_KEY[1])
                   ELSE stroke
        m == IF hasNumbers THEN ImplicitNumberSearch(stroke1) ELSE <<>>
    IN IF m # <<>>
       THEN SubSeq(stroke1, 1, m[1]) \o HYPHEN \o SubSeq(stroke1, m[1] + 1, Len(stroke1))
       ELSE IF HYPHEN[1] \in letters
            THEN IF Len(stroke1) > 0 /\ stroke1[Len(stroke1)] = HYPHEN[1]
                 THEN SubSeq(stroke1, 1, Len(stroke1) - 1)
                 ELSE IF letters \cap IMPLICIT_HYPHENS # {}
                      THEN RemoveChar(stroke1, HYPHEN[1])
                      ELSE stroke1
            ELSE stroke1

StrokeTexts == UNION {[1..n -> StrokeChars] : n \in 0..MaxLen}

InitNorm ==
    /\ SaveIdle /\ StrokeIdle /\ ConfigIdle
    /\ SSDIdle
    /\ CollIdle
    /\ n_in \in StrokeTexts
    /\ n_out = <<>>

\* normalize_stroke(s) on the text given
Normalize ==
    /\ n_out = <<>>
    /\ n_out' = <<normalize_stroke(n_in)>>
    /\ UNCHANGED n_in

\* normalize_stroke applied to its own result
Renormalize ==
    /\ Len(n_out) = 1
    /\ n_out' = Append(n_out, normalize_stroke(n_out[1]))
    /\ UNCHANGED n_in

NextNorm ==
    \/ Normalize /\ UNCHANGED <<ssd_vars, c_vars, s_vars, k_vars, g_vars>>
    \/ Renormalize /\ UNCHANGED <<ssd_vars, c_vars, s_vars, k_vars, g_vars>>

SpecNorm == InitNorm /\ [][NextNorm]_vars

(***************************************************************************)
(* C10: normalize_stroke is idempotent over every input string:            *)
(* normalize_stroke(normalize_stroke(s)) = normalize_stroke(s).            *)
(***************************************************************************)
C10_Idempotent == Len(n_out) = 2 => n_out[2] = n_out[1]

(***************************************************************************)
(* C23: hyphen rule.  For every input that contains a hyphen, contains an  *)
(* implicit-hyphen key and does not end with a hyphen, the result of       *)
(* normalize_stroke contains no hyphen, inputs with digits included.       *)
(***************************************************************************)
C23_HyphenRule ==
    (/\ Len(n_out) >= 1
     /\ HYPHEN[1] \in Range(n_in)
     /\ Range(n_in) \cap IMPLICIT_HYPHENS # {}
     /\ n_in[Len(n_in)] # HYPHEN[1])
    => HYPHEN[1] \notin Range(n_out[1])

(***************************************************************************)
(* Stroke (plover/steno.py).  A key is the string of its name.  The        *)
(* keyboard layout is the module plover.system; a layout of five keys is   *)
(* used, written as the English stenotype layout writes them:              *)
(*   KEYS  # S- A- * -F     NUMBERS  S- -> 1-, A- -> 5-, -F -> -6          *)
(***************************************************************************)
MaxKeys == 3     \* the container given to Stroke holds at most MaxKeys keys

SYSTEM ==
    [KEYS |-> << <<35>>, <<83, 45>>, <<65, 45>>, <<42>>, <<45, 70>> >>,
     NUMBERS |-> [k \in {<<83, 45>>, <<65, 45>>, <<45, 70>>} |->
                     CASE k = <<83, 45>> -> <<49, 45>>
                       [] k = <<65, 45>> -> <<53, 45>>
                       [] OTHER -> <<45, 54>>],
     IMPLICIT_HYPHEN_KEYS |-> {<<65, 45>>, <<53, 45>>, <<42>>},
     UNDO_STROKE_STENO |-> <<42>>]

\* the keys a container may hold: the keys of the layout, and the numeral 1-
RawKeys == Range(SYSTEM.KEYS) \cup {<<49, 45>>}

\* key.strip('-')
strip(k) ==
    LET I == {i \in 1..Len(k) : k[i] # HYPHEN[1]}
    IN IF I = {} THEN <<>>
       ELSE SubSeq(k, CHOOSE i \in I : \A j \in I : i <= j,
                      CHOOSE i \in I : \A j \in I : j <= i)

\* ''.join(l)
RECURSIVE join(_)
join(l) == IF l = <<>> THEN <<>> ELSE Head(l) \o join(Tail(l))

\* sort_steno_keys: sorted(keys, key=KEY_ORDER.__getitem__), a numeral having
\* the rank of the key that bears it; keys of one rank are listed the
\* numeral last
RECURSIVE sort_steno_keys(_)
sort_steno_keys(S) ==
    IF S = {} THEN <<>>
    ELSE LET rank(k) == CHOOSE i \in 1..Len(SYSTEM.KEYS) :
                            \/ SYSTEM.KEYS[i] = k
                            \/ /\ SYSTEM.KEYS[i] \in DOMAIN SYSTEM.NUMBERS
                               /\ SYSTEM.NUMBERS[SYSTEM.KEYS[i]] = k
             first == CHOOSE k \in S : \A x \in S \ {k} :
                          \/ rank(k) < rank(x)
                          \/ rank(k) = rank(x) /\ k \in Range(SYSTEM.KEYS)
         IN <<first>> \o sort_steno_keys(S \ {first})

\* mutant: the number key stays in the stroke
Stroke_init_keep_number(steno_keys) ==
    LET S0 == Range(steno_keys)
        numerals == S0 \cap DOMAIN SYSTEM.NUMBERS
        S == IF NUMBER_KEY \in S0 /\ numerals # {}
             THEN (S0 \ numerals) \cup {SYSTEM.NUMBERS[k] : k \in numerals}
             ELSE S0
        sorted == sort_steno_keys(S)
    IN [keys |-> S, steno_keys |-> sorted, rtfcre |-> <<>>, is_correction |-> FALSE]

\* Stroke.__init__(steno_keys): the set itself, and its attributes
Stroke_init(steno_keys) ==
    LET S0 == Range(steno_keys)
        numerals == S0 \cap DOMAIN SYSTEM.NUMBERS
        S == IF NUMBER_KEY \in S0 /\ numerals # {}
             THEN ((S0 \ {NUMBER_KEY}) \ numerals)
                      \cup {SYSTEM.NUMBERS[k] : k \in numerals}
             ELSE S0
        sorted == sort_steno_keys(S)
        stripped(l) == [i \in 1..Len(l) |-> strip(l[i])]
        pre == join(stripped(SelectSeq(sorted,
                       LAMBDA k : k[Len(k)] = HYPHEN[1] \/ k = NUMBER_KEY)))
        post == join(stripped(SelectSeq(sorted, LAMBDA k : k[1] = HYPHEN[1])))
        rtfcre == IF S \cap SYSTEM.IMPLICIT_HYPHEN_KEYS # {}
                  THEN join(stripped(sorted))
                  ELSE IF post # <<>> THEN pre \o HYPHEN \o post ELSE pre
    IN [keys |-> S, steno_keys |-> sorted, rtfcre |-> rtfcre,
        is_correction |-> (rtfcre = SYSTEM.UNDO_STROKE_STENO)]

InitStroke ==
    /\ SSDIdle /\ NormIdle /\ CollIdle /\ SaveIdle /\ ConfigIdle
    /\ pressed \in UNION {[1..n -> RawKeys] : n \in 0..MaxKeys}
    /\ strokes = <<>>

\* Stroke(steno_keys) on the keys pressed
NewStroke ==
    /\ strokes = <<>>
    /\ strokes' = <<Stroke_init(pressed)>>
    /\ UNCHANGED pressed

NextStroke ==
    \/ NewStroke /\ UNCHANGED <<ssd_vars, n_vars, c_vars, s_vars, g_vars>>

SpecStroke == InitStroke /\ [][NextStroke]_vars

(***************************************************************************)
(* C16: Stroke number conversion.  When the keys given contain the number  *)
(* key and at least one digit-bearing key, the Stroke holds the numeral    *)
(* key in place of each digit-bearing key and no number key, its other     *)
(* keys being those given; otherwise it holds exactly the keys given.      *)
(***************************************************************************)
C16_NumberConversion ==
    strokes # <<>> =>
        LET given == Range(pressed)
            digits == given \cap DOMAIN SYSTEM.NUMBERS
            keys == strokes[1].keys
        IN IF NUMBER_KEY \in given /\ digits # {}
           THEN /\ NUMBER_KEY \notin keys
                /\ \A k \in digits : k \notin keys /\ SYSTEM.NUMBERS[k] \in keys
                /\ \A k \in (given \ digits) \ {NUMBER_KEY} : k \in keys
                /\ \A k \in keys :
                       k \in given \/ \E d \in digits : k = SYSTEM.NUMBERS[d]
           ELSE keys = given

\* the chord # S- -F has become the stroke 1-6
C16_Witness ==
    /\ strokes # <<>>
    /\ Range(pressed) = {NUMBER_KEY, <<83, 45>>, <<45, 70>>}
    /\ strokes[1].keys = {<<49, 45>>, <<45, 54>>}
    /\ strokes[1].rtfcre = <<49, 45, 54>>

(***************************************************************************)
(* StenoDictionary (plover/steno_dictionary.py).  An instance is the       *)
(* record [path, forward, reverse, readonly, enabled]; forward is the      *)
(* dict itself, reverse the ReverseStenoDict: translation -> list of keys. *)
(* A translation is a string; None is <<>> and a value v is <<v>> where a  *)
(* call returns either.                                                    *)
(***************************************************************************)
\* the stroke-sequence keys, in a fixed order
KeyList == <<"K1", "K2">>
Keys == Range(KeyList)

\* the translations: "a", "A", "ab"
Translations == {<<97>>, <<65>>, <<97, 98>>}

Paths == {"A", "B"}

None == <<>>
Some(v) == <<v>>

\* the keys of the set S as a list, in the fixed order
KeySeq(S) == SelectSeq(KeyList, LAMBDA k : k \in S)

\* list.remove(k): the list without the first occurrence of k
RECURSIVE ListRemove(_, _)
ListRemove(l, k) ==
    IF l = <<>> THEN <<>>
    ELSE IF Head(l) = k THEN Tail(l)
    ELSE <<Head(l)>> \o ListRemove(Tail(l), k)

\* ReverseStenoDict.append_key(value, key)
RV_append_key(r, v, k) ==
    [x \in (DOMAIN r) \cup {v} |->
        IF x = v THEN (IF v \in DOMAIN r THEN Append(r[v], k) ELSE <<k>>) ELSE r[x]]

\* ReverseStenoDict.remove_key(value, key): an emptied entry is dropped
RV_remove_key(r, v, k) ==
    IF v \notin DOMAIN r THEN r
    ELSE LET l == ListRemove(r[v], k)
         IN IF l = <<>> THEN [x \in (DOMAIN r) \ {v} |-> r[x]]
            ELSE [r EXCEPT ![v] = l]

\* ReverseStenoDict.match_forward(fdict): rebuilt from the forward dict
RV_match_forward(f) ==
    [v \in {f[k] : k \in DOMAIN f} |-> KeySeq({k \in DOMAIN f : f[k] = v})]

\* the sorted (simkey, rawkey) list of a reverse dict
RECURSIVE SetToList(_)
SetToList(S) ==
    IF S = {} THEN <<>>
    ELSE LET x == CHOOSE y \in S : TRUE
         IN <<x>> \o SetToList(S \ {x})

RV_list(r) == SortList(SetToList({<<simfn(t), t>> : t \in DOMAIN r}))

\* StenoDictionary.__init__
SD_new ==
    [path |-> None, forward |-> <<>>, reverse |-> <<>>,
     readonly |-> FALSE, enabled |-> TRUE]

\* StenoDictionary.create(resource)
SD_create(path) == [SD_new EXCEPT !.path = Some(path)]

Result(d, err) == [d |-> d, err |-> err]

\* StenoDictionary.clear
SD_clear(d) == Result([d EXCEPT !.forward = <<>>, !.reverse = <<>>], "ok")

\* mutant: __setitem__ does not remove the old mapping from the reverse dict
SD_setitem_keep_old(d, k, v) ==
    IF d.readonly THEN Result(d, "AssertionError")
    ELSE Result([d EXCEPT
                    !.forward = [x \in (DOMAIN d.forward) \cup {k} |->
                                    IF x = k THEN v ELSE d.forward[x]],
                    !.reverse = RV_append_key(d.reverse, v, k)], "ok")

\* mutant: __setitem__ removes the key from the reverse set of the new value
SD_setitem_wrong_set(d, k, v) ==
    IF d.readonly THEN Result(d, "AssertionError")
    ELSE LET r1 == IF k \in DOMAIN d.forward
                   THEN RV_remove_key(d.reverse, v, k)
                   ELSE d.reverse
         IN Result([d EXCEPT
                       !.forward = [x \in (DOMAIN d.forward) \cup {k} |->
                                       IF x = k THEN v ELSE d.forward[x]],
                       !.reverse = RV_append_key(r1, v, k)], "ok")

\* StenoDictionary.__setitem__
SD_setitem(d, k, v) ==
    IF d.readonly THEN Result(d, "AssertionError")
    ELSE LET r1 == IF k \in DOMAIN d.forward
                   THEN RV_remove_key(d.reverse, d.forward[k], k)
                   ELSE d.reverse
         IN Result([d EXCEPT
                       !.forward = [x \in (DOMAIN d.forward) \cup {k} |->
                                       IF x = k THEN v ELSE d.forward[x]],
                       !.reverse = RV_append_key(r1, v, k)], "ok")

\* mutant: __delitem__ ignores an absent key
SD_delitem_silent(d, k) ==
    IF d.readonly THEN Result(d, "AssertionError")
    ELSE IF k \notin DOMAIN d.forward THEN Result(d, "ok")
    ELSE Result([d EXCEPT
                    !.forward = [x \in (DOMAIN d.forward) \ {k} |-> d.forward[x]],
                    !.reverse = RV_remove_key(d.reverse, d.forward[k], k)], "ok")

\* StenoDictionary.__delitem__: dict.pop(key) raises KeyError on an absent key
SD_delitem(d, k) ==
    IF d.readonly THEN Result(d, "AssertionError")
    ELSE IF k \notin DOMAIN d.forward THEN Result(d, "KeyError")
    ELSE Result([d EXCEPT
                    !.forward = [x \in (DOMAIN d.forward) \ {k} |-> d.forward[x]],
                    !.reverse = RV_remove_key(d.reverse, d.forward[k], k)], "ok")

\* the loop of update: self[k] = v for each item
RECURSIVE SD_setall(_, _)
SD_setall(d, items) ==
    IF items = <<>> THEN d
    ELSE SD_setall(SD_setitem(d, items[1][1], items[1][2]).d, Tail(items))

\* StenoDictionary.update, its argument given as a list of <<key, value>>
SD_update(d, items) ==
    IF d.readonly THEN Result(d, "AssertionError")
    ELSE IF DOMAIN d.forward = {}
         THEN LET f == DictOf(items)
              IN Result([d EXCEPT !.forward = f, !.reverse = RV_match_forward(f)], "ok")
         ELSE Result(SD_setall(d, items), "ok")

\* StenoDictionary.load(resource): _load fills the new dictionary by update;
\* writable tells whether the file can be written (and is no asset)
SD_load(path, items, writable) ==
    LET d == SD_update(SD_new, items).d
    IN [d EXCEPT !.readonly = ~writable, !.path = Some(path)]

\* StenoDictionary.reverse_lookup
SD_reverse_lookup(d, value) ==
    IF value \in DOMAIN d.reverse THEN d.reverse[value] ELSE <<>>

\* the arguments of update and the contents of loaded files: every mapping
\* of keys to translations, listed in the fixed key order
ItemsOf(f) == LET ks == KeySeq(DOMAIN f) IN [i \in 1..Len(ks) |-> <<ks[i], f[ks[i]]>>]
ForwardMaps == UNION {[K -> Translations] : K \in SUBSET Keys}
ItemLists == {ItemsOf(f) : f \in ForwardMaps}

(***************************************************************************)
(* One StenoDictionary, at path "A", as a state machine.                   *)
(***************************************************************************)
Ret(op, err) == [op |-> op, err |-> err]

InitDict ==
    /\ SaveIdle /\ StrokeIdle /\ ConfigIdle
    /\ SSDIdle
    /\ NormIdle
    /\ pool = [p \in {"A"} |-> SD_create("A")]
    /\ order = <<"A">>
    /\ filters = <<>>
    /\ ret = Ret("create", "ok")
    /\ qret = [op |-> "none"]

\* the call op(k) ends with outcome r; ret keeps the key given (None when the
\* call takes none) and the value it had before the call (history)
DictPut(r, op, k) ==
    /\ pool' = [pool EXCEPT !["A"] = r.d]
    /\ ret' = [op |-> op, err |-> r.err, key |-> k,
               old |-> IF k \in DOMAIN pool["A"].forward
                       THEN Some(pool["A"].forward[k]) ELSE None]
    /\ UNCHANGED <<order, filters, qret>>

DictSetItem ==
    \E k \in Keys, v \in Translations :
        DictPut(SD_setitem(pool["A"], k, v), "setitem", k)

DictDelItem ==
    \E k \in Keys : DictPut(SD_delitem(pool["A"], k), "delitem", k)

DictUpdate ==
    \E items \in ItemLists : DictPut(SD_update(pool["A"], items), "update", None)

DictClear == DictPut(SD_clear(pool["A"]), "clear", None)

\* the dictionary is replaced by one loaded from a file
DictLoad ==
    \E items \in ItemLists, writable \in BOOLEAN :
        DictPut(Result(SD_load("A", items, writable), "ok"), "load", None)

\* setdefault(k), pop(k), popitem(): each returns the class
\* NotImplementedError to its caller and raises nothing
UnsafeOps == {"setdefault", "pop", "popitem"}
SD_unsafe(d, op) == Result(d, "ok")

DictUnsafe ==
    \E op \in UnsafeOps, k \in Keys :
        DictPut(SD_unsafe(pool["A"], op), op, IF op = "popitem" THEN None ELSE k)

NextDict ==
    \/ DictUnsafe /\ UNCHANGED <<ssd_vars, n_vars, s_vars, k_vars, g_vars>>
    \/ DictSetItem /\ UNCHANGED <<ssd_vars, n_vars, s_vars, k_vars, g_vars>>
    \/ DictDelItem /\ UNCHANGED <<ssd_vars, n_vars, s_vars, k_vars, g_vars>>
    \/ DictUpdate /\ UNCHANGED <<ssd_vars, n_vars, s_vars, k_vars, g_vars>>
    \/ DictClear /\ UNCHANGED <<ssd_vars, n_vars, s_vars, k_vars, g_vars>>
    \/ DictLoad /\ UNCHANGED <<ssd_vars, n_vars, s_vars, k_vars, g_vars>>

SpecDict == InitDict /\ [][NextDict]_vars

(***************************************************************************)
(* C1: reverse-index exactness.  In every state reached by set, delete,    *)
(* update and clear, reverse_lookup(v) lists exactly the keys k with       *)
(* forward[k] = v, each once, and is empty when no key maps to v.          *)
(***************************************************************************)
C1_ReverseExact ==
    \A v \in Translations :
        LET d == pool["A"]
            keys == SD_reverse_lookup(d, v)
        IN /\ Range(keys) = {k \in DOMAIN d.forward : d.forward[k] = v}
           /\ NoDup(keys)

\* a key was just reassigned: both keys now produce the same translation
C1_Witness ==
    /\ ret.op = "setitem" /\ ret.err = "ok"
    /\ ~pool["A"].readonly
    /\ \E v \in Translations : Len(SD_reverse_lookup(pool["A"], v)) = 2

(***************************************************************************)
(* C5: a read-only dictionary is never mutated.  Every set, delete, update *)
(* and clear on a dictionary whose readonly flag is true ends in an error  *)
(* and leaves the forward mapping and the reverse index as they were.      *)
(***************************************************************************)
C5_ReadonlyNeverMutated ==
    [][(pool["A"].readonly /\ ret'.op \in {"setitem", "delitem", "update", "clear"})
          => (ret'.err # "ok" /\ pool' = pool)]_vars

(***************************************************************************)
(* C13: deleting an absent key from a writable dictionary raises KeyError  *)
(* and leaves the forward mapping and the reverse index unchanged;         *)
(* deleting a present key removes exactly that forward entry and exactly   *)
(* that key from the reverse set of its former value.                      *)
(***************************************************************************)
C13_Delete ==
    [][(ret'.op = "delitem" /\ ~pool["A"].readonly) =>
          LET d == pool["A"]
              e == pool'["A"]
              k == ret'.key
          IN IF k \notin DOMAIN d.forward
             THEN ret'.err = "KeyError" /\ e = d
             ELSE /\ ret'.err = "ok"
                  /\ DOMAIN e.forward = (DOMAIN d.forward) \ {k}
                  /\ \A x \in DOMAIN e.forward : e.forward[x] = d.forward[x]
                  /\ \A v \in Translations :
                         /\ NoDup(SD_reverse_lookup(e, v))
                         /\ Range(SD_reverse_lookup(e, v)) =
                                Range(SD_reverse_lookup(d, v)) \
                                    (IF v = d.forward[k] THEN {k} ELSE {})]_vars

\* an absent key was deleted from a writable dictionary that holds another
C13_Witness ==
    /\ ret.op = "delitem"
    /\ ret.err = "KeyError"
    /\ ~pool["A"].readonly
    /\ ret.key \notin DOMAIN pool["A"].forward
    /\ DOMAIN pool["A"].forward # {}

(***************************************************************************)
(* C14: pop, popitem and setdefault are unsupported and fail fast: each    *)
(* call ends in an error, it does not return normally to its caller.       *)
(***************************************************************************)
C14_UnsafeOpsFail == ret.op \in UnsafeOps => ret.err # "ok"

(***************************************************************************)
(* C18: reassignment.  Setting an existing key k, mapped to v1, to another *)
(* value v2 removes k from the reverse set of v1, adds k exactly once to   *)
(* the reverse set of v2, and leaves every other key of both sets and the  *)
(* reverse set of every other translation unchanged.                       *)
(***************************************************************************)
C18_Reassign ==
    [][(/\ ret'.op = "setitem"
        /\ ret'.err = "ok"
        /\ ret'.key \in DOMAIN pool["A"].forward
        /\ pool'["A"].forward[ret'.key] # pool["A"].forward[ret'.key]) =>
          LET d == pool["A"]
              e == pool'["A"]
              k == ret'.key
          IN \A v \in Translations :
                 /\ NoDup(SD_reverse_lookup(e, v))
                 /\ Range(SD_reverse_lookup(e, v)) =
                        IF v = d.forward[k] THEN Range(SD_reverse_lookup(d, v)) \ {k}
                        ELSE IF v = e.forward[k] THEN Range(SD_reverse_lookup(d, v)) \cup {k}
                        ELSE Range(SD_reverse_lookup(d, v))]_vars

\* K1 was moved from a translation K2 still produces to another one
C18_Witness ==
    /\ ret.op = "setitem" /\ ret.err = "ok"
    /\ ret.old # None
    /\ ret.old # Some(pool["A"].forward[ret.key])
    /\ SD_reverse_lookup(pool["A"], ret.old[1]) # <<>>

(***************************************************************************)
(* The search methods of a StenoDictionary: pass-throughs to the reverse   *)
(* dictionary, a similarity index over the translations.                   *)
(***************************************************************************)
\* similar_reverse_lookup = reverse.get_similar_keys(value)
SD_similar_reverse_lookup(d, value) ==
    LET list == RV_list(d.reverse)
    IN FilterScan(list, simfn(value), <<>>, "eq",
                  bisect_left(list, <<simfn(value)>>), <<>>)

\* partial_reverse_lookup = reverse.partial_match_keys(pattern, count)
SD_partial_reverse_lookup(d, pattern, count) ==
    LET list == RV_list(d.reverse)
    IN FilterScan(list, simfn(pattern), count, "startswith",
                  bisect_left(list, <<simfn(pattern)>>), <<>>)

\* the regular expressions searched for, and re.match on a translation
RegexPatterns == {"a.*", "A", ".*"}
RegexMatch(pattern, t) ==
    CASE pattern = "a.*" -> StartsWith(t, <<97>>)
      [] pattern = "A" -> StartsWith(t, <<65>>)
      [] OTHER -> TRUE

\* the first n elements of a list, all of them when count is None
Take(l, count) ==
    IF count = <<>> \/ count[1] >= Len(l) THEN l ELSE SubSeq(l, 1, count[1])

\* regex_reverse_lookup = reverse.regex_match_keys(pattern, count)
SD_regex_reverse_lookup(d, pattern, count) ==
    LET list == RV_list(d.reverse)
        all == [i \in 1..Len(list) |-> list[i][2]]
    IN Take(SelectSeq(all, LAMBDA t : RegexMatch(pattern, t)), count)

(***************************************************************************)
(* StenoDictionaryCollection.  ds is self.dicts, fs is self.filters.       *)
(***************************************************************************)
Dicts(pl, ord) == [i \in 1..Len(ord) |-> pl[ord[i]]]

\* the lookup filters registered by the engine: f(key, value)
FilterIds == {"drop_K1", "drop_ab"}
ApplyFilter(f, key, value) ==
    CASE f = "drop_K1" -> key = "K1"
      [] f = "drop_ab" -> value = <<97, 98>>
      [] OTHER -> FALSE

\* mutant: a filtered hit falls through to the members of lower priority
RECURSIVE LookupFallThrough(_, _, _, _)
LookupFallThrough(ds, fs, key, i) ==
    IF i > Len(ds) THEN None
    ELSE IF ds[i].enabled /\ key \in DOMAIN ds[i].forward
         THEN LET value == ds[i].forward[key]
              IN IF \E j \in 1..Len(fs) : ApplyFilter(fs[j], key, value)
                 THEN LookupFallThrough(ds, fs, key, i + 1)
                 ELSE Some(value)
         ELSE LookupFallThrough(ds, fs, key, i + 1)

\* mutant: lookup takes the entry of a member whatever its enabled flag
RECURSIVE LookupAnyMember(_, _, _, _)
LookupAnyMember(ds, fs, key, i) ==
    IF i > Len(ds) THEN None
    ELSE IF key \in DOMAIN ds[i].forward
         THEN LET value == ds[i].forward[key]
              IN IF \E j \in 1..Len(fs) : ApplyFilter(fs[j], key, value)
                 THEN None
                 ELSE Some(value)
         ELSE LookupAnyMember(ds, fs, key, i + 1)

\* the loop of lookup, from the member at (1-based) position i
RECURSIVE LookupFrom(_, _, _, _)
LookupFrom(ds, fs, key, i) ==
    IF i > Len(ds) THEN None
    ELSE IF ds[i].enabled /\ key \in DOMAIN ds[i].forward
         THEN LET value == ds[i].forward[key]
              IN IF \E j \in 1..Len(fs) : ApplyFilter(fs[j], key, value)
                 THEN None
                 ELSE Some(value)
         ELSE LookupFrom(ds, fs, key, i + 1)

coll_lookup(ds, fs, key) == LookupFrom(ds, fs, key, 1)

\* mutant: raw_lookup takes the entry of a member whatever its enabled flag
RECURSIVE RawLookupAnyMember(_, _, _)
RawLookupAnyMember(ds, key, i) ==
    IF i > Len(ds) THEN None
    ELSE IF key \in DOMAIN ds[i].forward
         THEN Some(ds[i].forward[key])
         ELSE RawLookupAnyMember(ds, key, i + 1)

RECURSIVE RawLookupFrom(_, _, _)
RawLookupFrom(ds, key, i) ==
    IF i > Len(ds) THEN None
    ELSE IF ds[i].enabled /\ key \in DOMAIN ds[i].forward
         THEN Some(ds[i].forward[key])
         ELSE RawLookupFrom(ds, key, i + 1)

coll_raw_lookup(ds, key) == RawLookupFrom(ds, key, 1)

\* mutant: keys overridden by a member of higher priority are kept
RECURSIVE ReverseNoOverride(_, _, _, _)
ReverseNoOverride(ds, value, i, keys) ==
    IF i = 0 THEN keys
    ELSE IF ds[i].enabled
         THEN ReverseNoOverride(ds, value, i - 1,
                                keys \cup Range(SD_reverse_lookup(ds[i], value)))
         ELSE ReverseNoOverride(ds, value, i - 1, keys)

\* the loop of reverse_lookup, from the member at position i down to the first
RECURSIVE ReverseFrom(_, _, _, _)
ReverseFrom(ds, value, i, keys) ==
    IF i = 0 THEN keys
    ELSE IF ds[i].enabled
         THEN LET overrides == {k \in keys : k \in DOMAIN ds[i].forward}
              IN ReverseFrom(ds, value, i - 1,
                             (keys \ overrides) \cup Range(SD_reverse_lookup(ds[i], value)))
         ELSE ReverseFrom(ds, value, i - 1, keys)

coll_reverse_lookup(ds, value) == ReverseFrom(ds, value, Len(ds), {})

\* A candidate translation is the record [v, m]: the string and the member
\* that supplied it.  'v is not old_v' compares objects: two equal strings
\* of one member are one object; whether equal strings of two members are
\* one object depends on how they were built (interned or not).
SameObject(c, old, interned) == c.v = old.v /\ (interned \/ c.m = old.m)

\* sorted(values, key=str.lower): stable
RECURSIVE InsertByLower(_, _)
InsertByLower(s, x) ==
    IF s = <<>> THEN <<x>>
    ELSE IF StrLess(Lower(x.v), Lower(Head(s).v)) THEN <<x>> \o s
    ELSE <<Head(s)>> \o InsertByLower(Tail(s), x)

RECURSIVE SortByLower(_)
SortByLower(s) ==
    IF s = <<>> THEN <<>>
    ELSE InsertByLower(SortByLower(SubSeq(s, 1, Len(s) - 1)), s[Len(s)])

\* mutant: a translation no key produces is returned with its empty key set
RECURSIVE MultiKeepEmpty(_, _, _, _, _, _, _)
MultiKeepEmpty(ds, vs, max_count, interned, i, old, results) ==
    IF i > Len(vs) THEN results
    ELSE IF old # <<>> /\ SameObject(vs[i], old[1], interned)
         THEN MultiKeepEmpty(ds, vs, max_count, interned, i + 1, old, results)
         ELSE LET keys == coll_reverse_lookup(ds, vs[i].v)
                  r1 == Append(results, <<vs[i].v, keys>>)
              IN IF max_count # <<>> /\ Len(r1) >= max_count[1] THEN r1
                 ELSE MultiKeepEmpty(ds, vs, max_count, interned, i + 1, <<vs[i]>>, r1)

\* the loop of _multi_reverse_lookup over the sorted candidates vs, from
\* position i; old is <<>> (None) or <<old_v>>
RECURSIVE MultiFrom(_, _, _, _, _, _, _)
MultiFrom(ds, vs, max_count, interned, i, old, results) ==
    IF i > Len(vs) THEN results
    ELSE IF old # <<>> /\ SameObject(vs[i], old[1], interned)
         THEN MultiFrom(ds, vs, max_count, interned, i + 1, old, results)
         ELSE LET keys == coll_reverse_lookup(ds, vs[i].v)
              IN IF keys # {}
                 THEN LET r1 == Append(results, <<vs[i].v, keys>>)
                      IN IF max_count # <<>> /\ Len(r1) >= max_count[1] THEN r1
                         ELSE MultiFrom(ds, vs, max_count, interned, i + 1, <<vs[i]>>, r1)
                 ELSE MultiFrom(ds, vs, max_count, interned, i + 1, <<vs[i]>>, results)

multi_reverse_lookup(ds, values, max_count, interned) ==
    MultiFrom(ds, SortByLower(values), max_count, interned, 1, <<>>, <<>>)

\* the candidates of the enabled members from position i on, in member order;
\* kind and arg select the member's search method
MemberSearch(d, kind, arg, count) ==
    CASE kind = "similar" -> SD_similar_reverse_lookup(d, arg)
      [] kind = "partial" -> SD_partial_reverse_lookup(d, arg, count)
      [] OTHER -> SD_regex_reverse_lookup(d, arg, count)

RECURSIVE Candidates(_, _, _, _, _)
Candidates(ds, kind, arg, count, i) ==
    IF i > Len(ds) THEN <<>>
    ELSE IF ds[i].enabled
         THEN LET ts == MemberSearch(ds[i], kind, arg, count)
              IN [j \in 1..Len(ts) |-> [v |-> ts[j], m |-> ds[i].path]]
                     \o Candidates(ds, kind, arg, count, i + 1)
         ELSE Candidates(ds, kind, arg, count, i + 1)

find_similar(ds, value, interned) ==
    multi_reverse_lookup(ds, Candidates(ds, "similar", value, <<>>, 1), <<>>, interned)

find_partial(ds, pattern, count, interned) ==
    multi_reverse_lookup(ds, Candidates(ds, "partial", pattern, count, 1), count, interned)

find_regex(ds, pattern, count, interned) ==
    multi_reverse_lookup(ds, Candidates(ds, "regex", pattern, count, 1), count, interned)

\* StenoDictionaryCollection.get(path): the position of the first member
\* with that path, 0 for None
RECURSIVE GetFrom(_, _, _)
GetFrom(ds, path, i) ==
    IF i > Len(ds) THEN 0
    ELSE IF ds[i].path = Some(path) THEN i
    ELSE GetFrom(ds, path, i + 1)

coll_get(ds, path) == GetFrom(ds, path, 1)

\* StenoDictionary.save seen from the collection: the assertion, then the write
SD_save(d) == IF d.readonly THEN "AssertionError" ELSE "ok"

\* the loop 'for d in dict_list: d.save()' over member positions
RECURSIVE SaveEach(_, _, _)
SaveEach(ds, idxs, saved) ==
    IF idxs = <<>> THEN [err |-> "ok", saved |-> saved]
    ELSE LET e == SD_save(ds[Head(idxs)])
         IN IF e # "ok" THEN [err |-> e, saved |-> saved]
            ELSE SaveEach(ds, Tail(idxs), Append(saved, ds[Head(idxs)].path[1]))

\* StenoDictionaryCollection.save(path_list); path_list is None or <<list>>.
\* With None the comprehension tests 'dictionary.save', a name that is not
\* defined: NameError as soon as the collection has a member.
coll_save(ds, path_list) ==
    IF path_list = None
    THEN IF Len(ds) = 0 THEN [err |-> "ok", saved |-> <<>>]
         ELSE [err |-> "NameError", saved |-> <<>>]
    ELSE LET paths == path_list[1]
             idxs == [i \in 1..Len(paths) |-> coll_get(ds, paths[i])]
         IN IF \E i \in 1..Len(idxs) : idxs[i] = 0
            THEN [err |-> "KeyError", saved |-> <<>>]
            ELSE SaveEach(ds, idxs, <<>>)

(***************************************************************************)
(* The collections the engine builds: every member loaded from a file,     *)
(* then enabled or disabled; the list holds the members in any order.      *)
(***************************************************************************)
LoadedDicts(p, W, E) ==
    {[SD_load(p, items, w) EXCEPT !.enabled = e] :
        items \in ItemLists, w \in W, e \in E}

Pools(W, E) ==
    {[p \in Paths |-> IF p = "A" THEN a ELSE b] :
        a \in LoadedDicts("A", W, E), b \in LoadedDicts("B", W, E)}

Orders == {<<>>, <<"A">>, <<"B">>, <<"A", "B">>, <<"B", "A">>}

\* the texts searched for: "A", "a", "ab", "b"
SearchTexts == SSDKeys

NoQuery == [op |-> "none"]
Query(op, arg, count, interned, result) ==
    [op |-> op, arg |-> arg, count |-> count, interned |-> interned, result |-> result]

(***************************************************************************)
(* The reverse-direction queries of a collection.                          *)
(***************************************************************************)
InitFind ==
    /\ SaveIdle /\ StrokeIdle /\ ConfigIdle
    /\ SSDIdle
    /\ NormIdle
    /\ pool \in Pools({TRUE}, BOOLEAN)
    /\ order \in Orders
    /\ filters = <<>>
    /\ ret = Ret("load", "ok")
    /\ qret = NoQuery

Asked(q) ==
    /\ qret = NoQuery
    /\ qret' = q
    /\ UNCHANGED <<pool, order, filters, ret>>

QRawLookup ==
    \E k \in Keys :
        Asked(Query("raw_lookup", k, <<>>, FALSE, coll_raw_lookup(Dicts(pool, order), k)))

QReverseLookup ==
    \E v \in Translations :
        Asked(Query("reverse_lookup", v, <<>>, FALSE,
                    coll_reverse_lookup(Dicts(pool, order), v)))

QFindSimilar ==
    \E v \in SearchTexts, interned \in BOOLEAN :
        Asked(Query("find_similar", v, <<>>, interned,
                    find_similar(Dicts(pool, order), v, interned)))

QFindPartial ==
    \E pattern \in SearchTexts, count \in Counts, interned \in BOOLEAN :
        Asked(Query("find_partial", pattern, count, interned,
                    find_partial(Dicts(pool, order), pattern, count, interned)))

QFindRegex ==
    \E pattern \in RegexPatterns, count \in Counts, interned \in BOOLEAN :
        Asked(Query("find_regex", pattern, count, interned,
                    find_regex(Dicts(pool, order), pattern, count, interned)))

NextFind ==
    \/ QRawLookup /\ UNCHANGED <<ssd_vars, n_vars, s_vars, k_vars, g_vars>>
    \/ QReverseLookup /\ UNCHANGED <<ssd_vars, n_vars, s_vars, k_vars, g_vars>>
    \/ QFindSimilar /\ UNCHANGED <<ssd_vars, n_vars, s_vars, k_vars, g_vars>>
    \/ QFindPartial /\ UNCHANGED <<ssd_vars, n_vars, s_vars, k_vars, g_vars>>
    \/ QFindRegex /\ UNCHANGED <<ssd_vars, n_vars, s_vars, k_vars, g_vars>>

SpecFind == InitFind /\ [][NextFind]_vars

FindOps == {"find_similar", "find_partial", "find_regex"}

\* "cat" and "dog"
cat == <<97>>
dog == <<97, 98>>

(***************************************************************************)
(* C2: collection reverse lookup agrees with forward precedence:           *)
(* reverse_lookup(v) is exactly the set of keys k with raw_lookup(k) = v,  *)
(* whatever the member order, enabled flags and contents.                  *)
(***************************************************************************)
C2_General ==
    qret.op = "reverse_lookup" =>
        qret.result = {k \in Keys : coll_raw_lookup(Dicts(pool, order), k) = Some(qret.arg)}

\* A (priority 0) holds K1 -> cat; B (priority 1) holds K1 -> dog, K2 -> cat;
\* reverse_lookup(cat) was asked
C2_Scenario ==
    /\ order = <<"A", "B">>
    /\ pool["A"].enabled /\ pool["B"].enabled
    /\ pool["A"].forward = [k \in {"K1"} |-> cat]
    /\ pool["B"].forward = [k \in {"K1", "K2"} |-> IF k = "K1" THEN dog ELSE cat]
    /\ qret.op = "reverse_lookup"
    /\ qret.arg = cat

\* C2 as claimed: in the scenario reverse_lookup(cat) is {K2} only
C2_AsClaimed == C2_General /\ (C2_Scenario => qret.result = {"K2"})

\* C2 amended: reverse_lookup(v) is exactly the set of keys k with
\* raw_lookup(k) = v; in the scenario that is {K1, K2}, K1 through A itself
C2_ReverseAgreesWithForward ==
    C2_General /\ (C2_Scenario => qret.result = {"K1", "K2"})

C2_Witness == C2_Scenario

(***************************************************************************)
(* C7: find_similar, find_partial and find_regex never return a pair whose *)
(* key set is empty: every returned translation has at least one key for   *)
(* which raw_lookup yields that translation.                                *)
(***************************************************************************)
C7_NoEmptyKeySet ==
    qret.op \in FindOps =>
        \A i \in 1..Len(qret.result) :
            /\ qret.result[i][2] # {}
            /\ \E k \in qret.result[i][2] :
                   coll_raw_lookup(Dicts(pool, order), k) = Some(qret.result[i][1])

\* a search returned a translation while dropping a candidate that an
\* enabled member holds but that every key producing it is overridden
C7_Witness ==
    /\ qret.op = "find_similar"
    /\ Len(qret.result) = 1
    /\ \E p \in Range(order) :
           /\ pool[p].enabled
           /\ \E t \in DOMAIN pool[p].reverse :
                  /\ simfn(t) = simfn(qret.arg)
                  /\ coll_reverse_lookup(Dicts(pool, order), t) = {}

(***************************************************************************)
(* C8: count bound.  For every count >= 0, 0 included, find_partial and    *)
(* find_regex return at most count pairs.                                  *)
(***************************************************************************)
C8_CountBound ==
    (qret.op \in {"find_partial", "find_regex"} /\ qret.count # <<>>) =>
        Len(qret.result) <= qret.count[1]

(***************************************************************************)
(* C9: no duplicate results.  The list returned by find_similar,           *)
(* find_partial and find_regex holds each translation at most once, even   *)
(* when several enabled members supply the same translation next to one    *)
(* that differs in letter case only.  Stated for the runs in which equal   *)
(* strings are one object, the case most favourable to 'is not'.           *)
(***************************************************************************)
C9_NoDuplicates ==
    (qret.op \in FindOps /\ qret.interned) => NoDup([i \in 1..Len(qret.result) |-> qret.result[i][1]])

(***************************************************************************)
(* lookup and the filter list of a collection.                             *)
(***************************************************************************)
InitFilter ==
    /\ SaveIdle /\ StrokeIdle /\ ConfigIdle
    /\ SSDIdle
    /\ NormIdle
    /\ pool \in Pools({TRUE}, BOOLEAN)
    /\ order \in Orders
    /\ filters = <<>>
    /\ ret = Ret("load", "ok")
    /\ qret = NoQuery

\* add_filter(f)
AddFilter ==
    \E f \in FilterIds :
        /\ Len(filters) < MaxFilters
        /\ filters' = Append(filters, f)
        /\ ret' = Ret("add_filter", "ok")
        /\ qret' = NoQuery
        /\ UNCHANGED <<pool, order>>

\* remove_filter(f): list.remove raises ValueError when f is not registered
RemoveFilter ==
    \E f \in FilterIds :
        /\ filters' = ListRemove(filters, f)
        /\ ret' = Ret("remove_filter", IF f \in Range(filters) THEN "ok" ELSE "ValueError")
        /\ qret' = NoQuery
        /\ UNCHANGED <<pool, order>>

QLookup ==
    \E k \in Keys :
        /\ qret' = Query("lookup", k, <<>>, FALSE,
                         coll_lookup(Dicts(pool, order), filters, k))
        /\ UNCHANGED <<pool, order, filters, ret>>

NextFilter ==
    \/ AddFilter /\ UNCHANGED <<ssd_vars, n_vars, s_vars, k_vars, g_vars>>
    \/ RemoveFilter /\ UNCHANGED <<ssd_vars, n_vars, s_vars, k_vars, g_vars>>
    \/ QLookup /\ UNCHANGED <<ssd_vars, n_vars, s_vars, k_vars, g_vars>>

SpecFilter == InitFilter /\ [][NextFilter]_vars

\* the positions of the enabled members that contain key
Holders(ds, key) == {i \in 1..Len(ds) : ds[i].enabled /\ key \in DOMAIN ds[i].forward}

Rejected(fs, key, value) == \E f \in Range(fs) : ApplyFilter(f, key, value)

(***************************************************************************)
(* C3: a filtered hit masks, it does not fall through.  If some filter     *)
(* returns true for the (key, value) of the first enabled member holding   *)
(* key, lookup returns None, whatever the members of lower priority hold;  *)
(* if no filter rejects it, lookup returns that first member's value.      *)
(***************************************************************************)
C3_FilteredHitMasks ==
    qret.op = "lookup" =>
        LET ds == Dicts(pool, order)
            H == Holders(ds, qret.arg)
        IN H # {} =>
              LET first == CHOOSE i \in H : \A j \in H : i <= j
                  value == ds[first].forward[qret.arg]
              IN IF Rejected(filters, qret.arg, value)
                 THEN qret.result = None
                 ELSE qret.result = Some(value)

\* lookup returned None although a member of lower priority holds an entry
\* for the key that no filter rejects
C3_Witness ==
    /\ qret.op = "lookup"
    /\ qret.result = None
    /\ LET ds == Dicts(pool, order)
       IN \E i \in Holders(ds, qret.arg) :
              /\ i > 1
              /\ ~Rejected(filters, qret.arg, ds[i].forward[qret.arg])

\* what the queries other than lookup return in the present state: raw_lookup
\* of every key, reverse_lookup of every translation, find_similar of "a"
\* and of "ab", find_partial of "a" with no count and with count 1, and
\* find_regex of ".*" with no count (the searches that reach every translation)
Answers(ds) ==
    [raw |-> [k \in Keys |-> coll_raw_lookup(ds, k)],
     reverse |-> [v \in Translations |-> coll_reverse_lookup(ds, v)],
     similar |-> [v \in {<<97>>, <<97, 98>>} |-> find_similar(ds, v, FALSE)],
     partial |-> [count \in {None, Some(1)} |-> find_partial(ds, <<97>>, count, FALSE)],
     regex |-> find_regex(ds, ".*", None, FALSE)]

(***************************************************************************)
(* C22: filters affect lookup only.  No call in a sequence of add_filter   *)
(* and remove_filter calls changes what raw_lookup, reverse_lookup,        *)
(* find_similar, find_partial and find_regex return, so that they return   *)
(* what they do with no filter registered; lookup                          *)
(* returns raw_lookup of the key or None, and raw_lookup of the key when   *)
(* the filter list is empty.                                               *)
(***************************************************************************)
C22_FiltersLookupOnly ==
    /\ [](qret.op = "lookup" =>
            LET raw == coll_raw_lookup(Dicts(pool, order), qret.arg)
            IN /\ qret.result \in {raw, None}
               /\ filters = <<>> => qret.result = raw)
    /\ [][(qret = NoQuery /\ filters' # filters) =>
            Answers(Dicts(pool', order')) = Answers(Dicts(pool, order))]_vars

\* with a filter registered lookup returned None for a key that raw_lookup
\* finds and that find_similar still reports among the keys of its value
C22_Witness ==
    /\ qret.op = "lookup"
    /\ filters # <<>>
    /\ qret.result = None
    /\ LET ds == Dicts(pool, order)
           raw == coll_raw_lookup(ds, qret.arg)
       IN /\ raw # None
          /\ \E i \in 1..Len(find_similar(ds, raw[1], FALSE)) :
                 qret.arg \in find_similar(ds, raw[1], FALSE)[i][2]

\* the collection without its disabled members
EnabledOnly(ds) == SelectSeq(ds, LAMBDA d : d.enabled)

(***************************************************************************)
(* C25: disabled members do not participate.  In every collection state    *)
(* lookup, raw_lookup, reverse_lookup, find_similar, find_partial and      *)
(* find_regex return what they return on the collection without its        *)
(* disabled members: a disabled member of higher priority supplies no      *)
(* value and overrides no key of a member of lower priority.               *)
(***************************************************************************)
C25_DisabledAbsent ==
    LET ds == Dicts(pool, order)
    IN /\ qret.op = "lookup" =>
              qret.result = coll_lookup(EnabledOnly(ds), filters, qret.arg)
       /\ Answers(ds) = Answers(EnabledOnly(ds))

\* lookup passed over a disabled first member holding the key with another
\* value and returned the value of the enabled second member
C25_Witness ==
    /\ qret.op = "lookup"
    /\ Len(order) = 2
    /\ LET ds == Dicts(pool, order)
       IN /\ ~ds[1].enabled /\ ds[2].enabled
          /\ qret.arg \in DOMAIN ds[1].forward
          /\ qret.arg \in DOMAIN ds[2].forward
          /\ ds[1].forward[qret.arg] # ds[2].forward[qret.arg]
          /\ qret.result = Some(ds[2].forward[qret.arg])
          /\ qret.arg \in coll_reverse_lookup(ds, ds[2].forward[qret.arg])

(***************************************************************************)
(* save of a collection.                                                   *)
(***************************************************************************)
\* the arguments of save: None, or a list of at most MaxPaths paths, "C"
\* being the path of no dictionary
PathLists ==
    {None} \cup {<<l>> : l \in UNION {[1..n -> Paths \cup {"C"}] : n \in 0..MaxPaths}}

InitCollSave ==
    /\ SaveIdle /\ StrokeIdle /\ ConfigIdle
    /\ SSDIdle
    /\ NormIdle
    /\ pool \in Pools(BOOLEAN, {TRUE})
    /\ order \in Orders
    /\ filters = <<>>
    /\ ret = Ret("load", "ok")
    /\ qret = NoQuery

\* save(path_list): qret records the argument, the outcome and the paths of
\* the members whose save ran, in order
CollSave ==
    \E path_list \in PathLists :
        LET r == coll_save(Dicts(pool, order), path_list)
        IN /\ qret' = [op |-> "save", arg |-> path_list, err |-> r.err, saved |-> r.saved]
           /\ UNCHANGED <<pool, order, filters, ret>>

\* set_dicts(dicts): the list is replaced as a whole
SetDicts ==
    \E o \in Orders :
        /\ order' = o
        /\ qret' = NoQuery
        /\ UNCHANGED <<pool, filters, ret>>

NextCollSave ==
    \/ CollSave /\ UNCHANGED <<ssd_vars, n_vars, s_vars, k_vars, g_vars>>
    \/ SetDicts /\ UNCHANGED <<ssd_vars, n_vars, s_vars, k_vars, g_vars>>

SpecCollSave == InitCollSave /\ [][NextCollSave]_vars

(***************************************************************************)
(* C6: save() with no targets completes without error and saves every      *)
(* member whose readonly flag is false exactly once, and no read-only      *)
(* member; save(paths) saves exactly the members with those paths.         *)
(***************************************************************************)
C6_SaveAllWritable ==
    (qret.op = "save" /\ qret.arg = None) =>
        /\ qret.err = "ok"
        /\ NoDup(qret.saved)
        /\ Range(qret.saved) = {p \in Range(order) : ~pool[p].readonly}

(***************************************************************************)
(* The writable members of a collection.                                   *)
(***************************************************************************)
\* mutant: first_writable passes over the disabled members
RECURSIVE FirstWritableEnabledFrom(_, _)
FirstWritableEnabledFrom(ds, i) ==
    IF i > Len(ds) THEN [err |-> "KeyError", idx |-> 0]
    ELSE IF ~ds[i].readonly /\ ds[i].enabled THEN [err |-> "ok", idx |-> i]
    ELSE FirstWritableEnabledFrom(ds, i + 1)

\* first_writable, its loop from the member at (1-based) position i: the
\* position of the member returned, or the KeyError raised
RECURSIVE FirstWritableFrom(_, _)
FirstWritableFrom(ds, i) ==
    IF i > Len(ds) THEN [err |-> "KeyError", idx |-> 0]
    ELSE IF ~ds[i].readonly THEN [err |-> "ok", idx |-> i]
    ELSE FirstWritableFrom(ds, i + 1)

InitColl ==
    /\ SSDIdle /\ NormIdle /\ SaveIdle /\ StrokeIdle /\ ConfigIdle
    /\ pool \in Pools(BOOLEAN, BOOLEAN)
    /\ order \in Orders
    /\ filters = <<>>
    /\ ret = Ret("load", "ok")
    /\ qret = NoQuery

\* first_writable(): qret records the outcome and the path of the member
QFirstWritable ==
    LET r == FirstWritableFrom(Dicts(pool, order), 1)
    IN Asked([op |-> "first_writable", err |-> r.err,
              result |-> IF r.err = "ok" THEN Some(order[r.idx]) ELSE None])

\* the path arguments of set: None, the path of a dictionary, or "C", the
\* path of none
SetPaths == {None} \cup {Some(p) : p \in Paths \cup {"C"}}

\* mutant: set writes into the last writable member
coll_set_last(ds, key, value, path) ==
    LET W == {i \in 1..Len(ds) : ~ds[i].readonly}
    IN IF W = {} THEN [err |-> "KeyError", idx |-> 0, d |-> SD_new]
       ELSE LET i == CHOOSE x \in W : \A y \in W : y <= x
                r == SD_setitem(ds[i], key, value)
            IN [err |-> r.err, idx |-> i, d |-> r.d]

\* mutant: set writes into first_writable() whatever the path
coll_set_nopath(ds, key, value, path) ==
    LET w == FirstWritableFrom(ds, 1)
    IN IF w.err # "ok" THEN [err |-> w.err, idx |-> 0, d |-> SD_new]
       ELSE LET r == SD_setitem(ds[w.idx], key, value)
            IN [err |-> r.err, idx |-> w.idx, d |-> r.d]

\* StenoDictionaryCollection.set(key, value, path): the exception raised
\* ("ok" when none), the position of the member written and what it becomes
coll_set(ds, key, value, path) ==
    LET w == IF path = None THEN FirstWritableFrom(ds, 1)
             ELSE LET i == coll_get(ds, path[1])
                  IN IF i = 0 THEN [err |-> "KeyError", idx |-> 0]
                     ELSE [err |-> "ok", idx |-> i]
    IN IF w.err # "ok" THEN [err |-> w.err, idx |-> 0, d |-> SD_new]
       ELSE LET r == SD_setitem(ds[w.idx], key, value)
            IN [err |-> r.err, idx |-> w.idx, d |-> r.d]

\* set(key, value, path) on the collection: qret records the call and its
\* outcome
CollSet ==
    \E k \in Keys, v \in Translations, path \in SetPaths :
        LET r == coll_set(Dicts(pool, order), k, v, path)
        IN /\ qret = NoQuery
           /\ pool' = IF r.err = "ok" THEN [pool EXCEPT ![order[r.idx]] = r.d]
                      ELSE pool
           /\ qret' = [op |-> "set", key |-> k, value |-> v, path |-> path,
                       err |-> r.err]
           /\ UNCHANGED <<order, filters, ret>>

NextColl ==
    \/ QFirstWritable /\ UNCHANGED <<ssd_vars, n_vars, s_vars, k_vars, g_vars>>
    \/ CollSet /\ UNCHANGED <<ssd_vars, n_vars, s_vars, k_vars, g_vars>>

SpecColl == InitColl /\ [][NextColl]_vars

(***************************************************************************)
(* C15: first_writable() returns the member of lowest index whose readonly *)
(* flag is false, whatever its enabled flag, and raises an error when      *)
(* every member is read-only or the collection is empty.                   *)
(***************************************************************************)
C15_FirstWritable ==
    qret.op = "first_writable" =>
        LET W == {i \in 1..Len(order) : ~pool[order[i]].readonly}
        IN IF W = {}
           THEN qret.err = "KeyError" /\ qret.result = None
           ELSE /\ qret.err = "ok"
                /\ qret.result = Some(order[CHOOSE i \in W : \A j \in W : i <= j])

\* the member returned is disabled and comes after a read-only one
C15_Witness ==
    /\ qret.op = "first_writable"
    /\ Len(order) = 2
    /\ pool[order[1]].readonly
    /\ ~pool[order[2]].enabled
    /\ qret.result = Some(order[2])

(***************************************************************************)
(* C21: set(key, value, path) changes one member only.  With no path the   *)
(* entry goes into the first writable member, with a path into the member  *)
(* of that path, and every other dictionary keeps its forward mapping and  *)
(* its reverse index; when the path names no member or no member is        *)
(* writable, an error is raised and no dictionary is changed.              *)
(***************************************************************************)
C21_SetOneMember ==
    [][(qret = NoQuery /\ qret'.op = "set") =>
         LET ds == Dicts(pool, order)
             W == {i \in 1..Len(ds) : ~ds[i].readonly}
             N == {i \in 1..Len(ds) : Some(order[i]) = qret'.path}
             target == IF qret'.path = None
                       THEN IF W = {} THEN 0 ELSE CHOOSE i \in W : \A j \in W : i <= j
                       ELSE IF N = {} THEN 0 ELSE CHOOSE i \in N : TRUE
         IN IF target = 0
            THEN qret'.err # "ok" /\ pool' = pool
            ELSE /\ \A p \in Paths \ {order[target]} : pool'[p] = pool[p]
                 /\ qret'.err # "ok" => pool' = pool
                 /\ qret'.err = "ok" =>
                        LET old == pool[order[target]].forward
                            new == pool'[order[target]].forward
                        IN /\ DOMAIN new = (DOMAIN old) \cup {qret'.key}
                           /\ new[qret'.key] = qret'.value
                           /\ \A x \in (DOMAIN old) \ {qret'.key} : new[x] = old[x]
      ]_vars

\* set with the path of the second member wrote there although the first
\* member is writable too
C21_Witness ==
    /\ qret.op = "set"
    /\ qret.err = "ok"
    /\ Len(order) = 2
    /\ qret.path = Some(order[2])
    /\ ~pool[order[1]].readonly
    /\ qret.key \notin DOMAIN pool[order[1]].forward
    /\ pool[order[2]].forward[qret.key] = qret.value

(***************************************************************************)
(* C26: write-then-read through the collection.  If the first writable     *)
(* member is enabled and no enabled member of higher priority contains k,  *)
(* then right after set(k, v) with no path raw_lookup(k) is v, k is in     *)
(* reverse_lookup(v) and in reverse_lookup(w) for no other translation w.  *)
(***************************************************************************)
C26_WriteThenRead ==
    (qret.op = "set" /\ qret.path = None /\ qret.err = "ok") =>
        LET ds == Dicts(pool, order)
            W == {i \in 1..Len(ds) : ~ds[i].readonly}
            fw == CHOOSE i \in W : \A j \in W : i <= j
        IN (/\ ds[fw].enabled
            /\ \A i \in 1..(fw - 1) :
                   ds[i].enabled => qret.key \notin DOMAIN ds[i].forward)
           => /\ coll_raw_lookup(ds, qret.key) = Some(qret.value)
              /\ qret.key \in coll_reverse_lookup(ds, qret.value)
              /\ \A w \in Translations \ {qret.value} :
                     qret.key \notin coll_reverse_lookup(ds, w)

\* set with no path wrote into the second member, the first being read-only,
\* enabled and without the key; raw_lookup finds the value written
C26_Witness ==
    /\ qret.op = "set" /\ qret.path = None /\ qret.err = "ok"
    /\ Len(order) = 2
    /\ pool[order[1]].readonly /\ pool[order[1]].enabled
    /\ pool[order[1]].forward # <<>>
    /\ qret.key \notin DOMAIN pool[order[1]].forward
    /\ pool[order[2]].enabled
    /\ coll_raw_lookup(Dicts(pool, order), qret.key) = Some(qret.value)

(***************************************************************************)
(* StenoDictionary.save behind the wrappers of create_dictionary and       *)
(* load_dictionary: d.save = _threaded(_locked(d.save)).  Every call       *)
(* starts a thread; the thread takes the lock of the instance, runs the    *)
(* save (JsonDictionary._save to the temporary file, then the move to the  *)
(* final path) and gives the lock back.  A file is [content, mtime].       *)
(***************************************************************************)
MaxSaves == 3    \* save is called at most MaxSaves times

\* JsonDictionary._save: the chunks json.dump writes, the keys sorted
Serialize(f) == <<"{">> \o ItemsOf(f) \o <<"}">>

\* mutant: the new content is written to the final path itself
NoTmp(p) == p

\* tmp = filename + '.tmp'
Tmp(p) == IF p = "A" THEN "A.tmp" ELSE "B.tmp"

\* the modification time given to a file written now: later than that of
\* every file on the disk
Now ==
    LET T == {disk[f].mtime : f \in DOMAIN disk}
    IN IF T = {} THEN 1 ELSE 1 + (CHOOSE m \in T : \A n \in T : n <= m)

\* the state of a path and of its instance, as a save finds them (history)
Seen(p) ==
    [file |-> IF p \in DOMAIN disk THEN Some(disk[p]) ELSE None, ts |-> timestamp[p]]

\* a thread: the instance it saves, its position, and the locals of the save
\* it runs (the chunks to write, the timestamp read, what it found on entry)
Thread(p, pc) ==
    [inst |-> p, pc |-> pc, data |-> <<>>, ts |-> 0,
     old |-> [file |-> None, ts |-> 0]]

\* thread t moves to pc
Goto(t, pc) == th' = [th EXCEPT ![t].pc = pc]

\* the dictionaries are new ones from create_dictionary; order lists those
\* the caller saves and changes
InitSave ==
    /\ SSDIdle /\ NormIdle /\ StrokeIdle /\ ConfigIdle
    /\ pool = [p \in Paths |-> SD_create(p)]
    /\ order = <<"A">>
    /\ filters = <<>>
    /\ ret = Ret("create", "ok")
    /\ qret = NoQuery
    /\ disk = <<>>
    /\ th = <<>>
    /\ lock = [p \in Paths |-> 0]
    /\ timestamp = [p \in Paths |-> 0]

\* _threaded: d.save() starts a thread and returns
SaveCall ==
    \E p \in Range(order) :
        /\ Len(th) < MaxSaves
        /\ th' = Append(th, Thread(p, "start"))
        /\ UNCHANGED <<pool, disk, lock, timestamp>>

\* mutant: the wrapper calls the save without taking the lock
AcquireUnlocked ==
    \E t \in DOMAIN th :
        /\ th[t].pc = "start"
        /\ th' = [th EXCEPT ![t].pc = "save", ![t].old = Seen(th[t].inst)]
        /\ UNCHANGED <<pool, disk, lock, timestamp>>

\* _locked: 'with lock:' waits until the lock of the instance is free
Acquire ==
    \E t \in DOMAIN th :
        /\ th[t].pc = "start"
        /\ lock[th[t].inst] = 0
        /\ lock' = [lock EXCEPT ![th[t].inst] = t]
        /\ th' = [th EXCEPT ![t].pc = "save", ![t].old = Seen(th[t].inst)]
        /\ UNCHANGED <<pool, disk, timestamp>>

\* save: the assertion, then _save opens the temporary file for writing
\* (created or truncated) and builds the dict it dumps
SaveOpen ==
    \E t \in DOMAIN th :
        LET d == pool[th[t].inst]
        IN /\ th[t].pc = "save"
           /\ IF d.readonly
              THEN Goto(t, "raise") /\ UNCHANGED disk
              ELSE /\ th' = [th EXCEPT ![t].pc = "write", ![t].data = Serialize(d.forward)]
                   /\ disk' = [f \in (DOMAIN disk) \cup {Tmp(th[t].inst)} |->
                                  IF f = Tmp(th[t].inst)
                                  THEN [content |-> <<>>, mtime |-> Now]
                                  ELSE disk[f]]
           /\ UNCHANGED <<pool, lock, timestamp>>

\* _save: json.dump writes the next chunk; after the last one the file is
\* closed and its modification time is read (resource_timestamp(tmp))
SaveWrite ==
    \E t \in DOMAIN th :
        LET tmp == Tmp(th[t].inst)
            n == Len(disk[tmp].content) + 1
        IN /\ th[t].pc = "write"
           /\ disk' = [disk EXCEPT ![tmp].content = Append(@, th[t].data[n])]
           /\ th' = IF n = Len(th[t].data)
                    THEN [th EXCEPT ![t].pc = "move", ![t].ts = disk[tmp].mtime]
                    ELSE th
           /\ UNCHANGED <<pool, lock, timestamp>>

\* shutil.move(tmp, filename): a rename within one directory
SaveMove ==
    \E t \in DOMAIN th :
        LET p == th[t].inst
        IN /\ th[t].pc = "move"
           /\ disk' = [f \in ((DOMAIN disk) \cup {p}) \ {Tmp(p)} |->
                          IF f = p THEN disk[Tmp(p)] ELSE disk[f]]
           /\ Goto(t, "stamp")
           /\ UNCHANGED <<pool, lock, timestamp>>

\* self.timestamp = timestamp
SaveStamp ==
    \E t \in DOMAIN th :
        /\ th[t].pc = "stamp"
        /\ timestamp' = [timestamp EXCEPT ![th[t].inst] = th[t].ts]
        /\ Goto(t, "done")
        /\ UNCHANGED <<pool, disk, lock>>

\* the step the thread is at raises (the file cannot be opened, a write
\* fails, the move fails): the exception leaves save
SaveFail ==
    \E t \in DOMAIN th :
        /\ th[t].pc \in {"save", "write", "move"}
        /\ Goto(t, "raise")
        /\ UNCHANGED <<pool, disk, lock, timestamp>>

\* mutant: the lock is given back when the save returns, not when it raises
ReleaseOnReturn ==
    \E t \in DOMAIN th :
        /\ th[t].pc \in {"done", "raise"}
        /\ lock' = IF th[t].pc = "done" THEN [lock EXCEPT ![th[t].inst] = 0] ELSE lock
        /\ th' = [th EXCEPT ![t] = Thread(th[t].inst,
                                          IF th[t].pc = "done" THEN "end" ELSE "dead")]
        /\ UNCHANGED <<pool, disk, timestamp>>

\* _locked: leaving 'with lock:', by return or by exception, frees the lock;
\* the thread ends and its locals are gone
Release ==
    \E t \in DOMAIN th :
        /\ th[t].pc \in {"done", "raise"}
        /\ lock' = [lock EXCEPT ![th[t].inst] = 0]
        /\ th' = [th EXCEPT ![t] = Thread(th[t].inst,
                                          IF th[t].pc = "done" THEN "end" ELSE "dead")]
        /\ UNCHANGED <<pool, disk, timestamp>>

\* the caller goes on changing a dictionary: d["K1"] = v
Mutate ==
    \E p \in Range(order), k \in {"K1"}, v \in Translations :
        /\ pool' = [pool EXCEPT ![p] = SD_setitem(pool[p], k, v).d]
        /\ UNCHANGED <<disk, th, lock, timestamp>>

NextSave ==
    \/ SaveCall /\ UNCHANGED <<order, filters, ret, qret, ssd_vars, n_vars, k_vars, g_vars>>
    \/ Acquire /\ UNCHANGED <<order, filters, ret, qret, ssd_vars, n_vars, k_vars, g_vars>>
    \/ SaveOpen /\ UNCHANGED <<order, filters, ret, qret, ssd_vars, n_vars, k_vars, g_vars>>
    \/ SaveWrite /\ UNCHANGED <<order, filters, ret, qret, ssd_vars, n_vars, k_vars, g_vars>>
    \/ SaveMove /\ UNCHANGED <<order, filters, ret, qret, ssd_vars, n_vars, k_vars, g_vars>>
    \/ SaveStamp /\ UNCHANGED <<order, filters, ret, qret, ssd_vars, n_vars, k_vars, g_vars>>
    \/ SaveFail /\ UNCHANGED <<order, filters, ret, qret, ssd_vars, n_vars, k_vars, g_vars>>
    \/ Release /\ UNCHANGED <<order, filters, ret, qret, ssd_vars, n_vars, k_vars, g_vars>>
    \/ Mutate /\ UNCHANGED <<order, filters, ret, qret, ssd_vars, n_vars, k_vars, g_vars>>

SpecSave == InitSave /\ [][NextSave]_vars

(***************************************************************************)
(* C11: atomic save.  At every step of a save, a failing one included, the *)
(* file at the final path is the complete previous content or the complete *)
(* new serialization, never a partial file; until the move the final path  *)
(* and the timestamp are as the save found them, and they stay so when the *)
(* save fails; the timestamp is refreshed only after the move, to the      *)
(* time of the new file; no step of a save alters the forward mapping.     *)
(***************************************************************************)
C11_AtomicSave ==
    /\ [](/\ \A p \in Paths \cap DOMAIN disk :
                 disk[p].content \in {Serialize(f) : f \in ForwardMaps}
          /\ \A t \in DOMAIN th :
                 LET p == th[t].inst
                 IN /\ th[t].pc \in {"save", "write", "move", "raise"}
                           => Seen(p) = th[t].old
                    /\ th[t].pc \in {"stamp", "done"}
                           => /\ disk[p].content = th[t].data
                              /\ disk[p].mtime = th[t].ts
                              /\ Tmp(p) \notin DOMAIN disk
                    /\ th[t].pc = "stamp" => timestamp[p] = th[t].old.ts
                    /\ th[t].pc = "done" => timestamp[p] = th[t].ts)
    /\ [][(th' # th \/ disk' # disk \/ timestamp' # timestamp) => pool' = pool]_vars

\* a save failed half way through its writes: the temporary file is partial,
\* the final path still holds the content of an earlier save, which differs
\* from what the dictionary now maps
C11_Witness ==
    \E t \in DOMAIN th :
        /\ th[t].pc = "raise"
        /\ Tmp(th[t].inst) \in DOMAIN disk
        /\ Len(disk[Tmp(th[t].inst)].content) \in 1..(Len(th[t].data) - 1)
        /\ th[t].inst \in DOMAIN disk
        /\ disk[th[t].inst].content # th[t].data
        /\ timestamp[th[t].inst] > 0

(***************************************************************************)
(* The same wrappers with two dictionaries saved from several threads and  *)
(* left unchanged meanwhile.                                               *)
(***************************************************************************)
InitLock ==
    /\ SSDIdle /\ NormIdle /\ StrokeIdle /\ ConfigIdle
    /\ pool = [p \in Paths |-> SD_create(p)]
    /\ order = <<"A", "B">>
    /\ filters = <<>>
    /\ ret = Ret("create", "ok")
    /\ qret = NoQuery
    /\ disk = <<>>
    /\ th = <<>>
    /\ lock = [p \in Paths |-> 0]
    /\ timestamp = [p \in Paths |-> 0]

NextLock ==
    \/ SaveCall /\ UNCHANGED <<order, filters, ret, qret, ssd_vars, n_vars, k_vars, g_vars>>
    \/ Acquire /\ UNCHANGED <<order, filters, ret, qret, ssd_vars, n_vars, k_vars, g_vars>>
    \/ SaveOpen /\ UNCHANGED <<order, filters, ret, qret, ssd_vars, n_vars, k_vars, g_vars>>
    \/ SaveWrite /\ UNCHANGED <<order, filters, ret, qret, ssd_vars, n_vars, k_vars, g_vars>>
    \/ SaveMove /\ UNCHANGED <<order, filters, ret, qret, ssd_vars, n_vars, k_vars, g_vars>>
    \/ SaveStamp /\ UNCHANGED <<order, filters, ret, qret, ssd_vars, n_vars, k_vars, g_vars>>
    \/ SaveFail /\ UNCHANGED <<order, filters, ret, qret, ssd_vars, n_vars, k_vars, g_vars>>
    \/ Release /\ UNCHANGED <<order, filters, ret, qret, ssd_vars, n_vars, k_vars, g_vars>>

SpecLock == InitLock /\ [][NextLock]_vars

(***************************************************************************)
(* C12: save mutual exclusion.  Whatever the number of save() calls and    *)
(* the threads they run in, no two executions of the underlying save of    *)
(* one instance overlap: at most one thread is between taking and giving   *)
(* back the lock of an instance, and it is the holder of that lock.        *)
(***************************************************************************)
C12_MutualExclusion ==
    \A t \in DOMAIN th :
        th[t].pc \in {"save", "write", "move", "stamp", "done", "raise"} =>
            /\ lock[th[t].inst] = t
            /\ \A u \in DOMAIN th :
                   (u # t /\ th[u].inst = th[t].inst) =>
                       th[u].pc \in {"start", "end", "dead"}

\* a save of A is writing while another save of A waits for the lock and a
\* save of B, not serialized against A's, is writing as well
C12_Witness ==
    \E t, u, w \in DOMAIN th :
        /\ th[t].inst = "A" /\ th[t].pc = "write"
        /\ th[u].inst = "A" /\ th[u].pc = "start"
        /\ th[w].inst = "B" /\ th[w].pc = "write"

(***************************************************************************)
(* The threads under a fair scheduler: a thread that can take its next     *)
(* step (take the free lock, open, write, move, assign the timestamp,      *)
(* leave the lock) is not left waiting for ever.  Whether a step of the    *)
(* save fails, and whether save() is called again, is left open.  The      *)
(* saves are those of one dictionary, which all wait for one lock.         *)
(***************************************************************************)
Fairness ==
    LET rest == <<order, filters, ret, qret, ssd_vars, n_vars, k_vars, g_vars>>
    IN /\ WF_vars(Acquire /\ UNCHANGED rest)
       /\ WF_vars(SaveOpen /\ UNCHANGED rest)
       /\ WF_vars(SaveWrite /\ UNCHANGED rest)
       /\ WF_vars(SaveMove /\ UNCHANGED rest)
       /\ WF_vars(SaveStamp /\ UNCHANGED rest)
       /\ WF_vars(Release /\ UNCHANGED rest)

SpecLive == InitSave /\ [][NextLock]_vars /\ Fairness

(***************************************************************************)
(* C27: threaded save progress.  A call of save() starts a thread and      *)
(* returns without a step of the save having run; under fair scheduling    *)
(* every save issued takes the lock, runs and gives the lock back, by      *)
(* completing or by raising, so that a failed save holds no lock and the   *)
(* saves of the same instance issued with it or after it run as well.      *)
(***************************************************************************)
C27_Progress ==
    /\ [][Len(th') > Len(th) =>
            /\ th' = Append(th, Thread(th'[Len(th')].inst, "start"))
            /\ lock' = lock /\ disk' = disk /\ timestamp' = timestamp]_vars
    /\ \A t \in 1..MaxSaves :
           /\ (t \in DOMAIN th /\ th[t].pc = "start")
                  ~> (t \in DOMAIN th /\ lock[th[t].inst] = t)
           /\ (t \in DOMAIN th /\ lock[th[t].inst] = t)
                  ~> (t \in DOMAIN th /\ th[t].pc \in {"end", "dead"})
    /\ [](\A t \in DOMAIN th : th[t].pc \in {"end", "dead"} => lock[th[t].inst] # t)

\* a save of A has failed and a save of A issued after it has completed
C27_Witness ==
    \E t, u \in DOMAIN th :
        /\ t < u
        /\ th[t].inst = th[u].inst
        /\ th[t].pc = "dead"
        /\ th[u].pc = "end"
        /\ lock[th[t].inst] = 0

(***************************************************************************)
(* set_config (plover/command/set_config.py).  The engine passes item      *)
(* access to the configuration; three options are kept, one of each kind:  *)
(*   "u" an integer (undo_levels), "a" a boolean (start_attached),         *)
(*   "p" one of the strings "x" and "x,y" (space_placement).               *)
(* A value is [t, v]: its type and its content.                            *)
(***************************************************************************)
COMMAND_DELIMITER == <<44>>

\* the options and their kinds; the values the configuration starts with
OPTIONS == [k \in {<<117>>, <<97>>, <<112>>} |->
               CASE k = <<117>> -> "int" [] k = <<97>> -> "bool" [] OTHER -> "choice"]
DEFAULTS == [k \in DOMAIN OPTIONS |->
                CASE k = <<117>> -> [t |-> "int", v |-> 0]
                  [] k = <<97>> -> [t |-> "bool", v |-> FALSE]
                  [] OTHER -> [t |-> "str", v |-> <<120>>]]

\* mutant: the command is split at its last delimiter
rsplit1(s) ==
    LET I == {i \in 1..Len(s) : s[i] = COMMAND_DELIMITER[1]}
    IN IF I = {} THEN <<s>>
       ELSE LET i == CHOOSE x \in I : \A y \in I : y <= x
            IN <<SubSeq(s, 1, i - 1), SubSeq(s, i + 1, Len(s))>>

\* cmdline.split(COMMAND_DELIMITER, 1): one string, or two around the first
\* delimiter
split1(s) ==
    LET I == {i \in 1..Len(s) : s[i] = COMMAND_DELIMITER[1]}
    IN IF I = {} THEN <<s>>
       ELSE LET i == CHOOSE x \in I : \A y \in I : x <= y
            IN <<SubSeq(s, 1, i - 1), SubSeq(s, i + 1, Len(s))>>

\* int(s) of a string of decimal digits
RECURSIVE Decimal(_)
Decimal(s) ==
    IF s = <<>> THEN 0 ELSE 10 * Decimal(SubSeq(s, 1, Len(s) - 1)) + (s[Len(s)] - 48)

\* ast.literal_eval on the texts used here: a decimal integer, True, False,
\* a string in double quotes; a bare name is a malformed node (ValueError),
\* anything else does not parse (SyntaxError)
literal_eval(s) ==
    IF s # <<>> /\ \A i \in 1..Len(s) : s[i] \in NUMBERS_
    THEN [err |-> "ok", val |-> [t |-> "int", v |-> Decimal(s)]]
    ELSE IF s = <<84, 114, 117, 101>>
    THEN [err |-> "ok", val |-> [t |-> "bool", v |-> TRUE]]
    ELSE IF s = <<70, 97, 108, 115, 101>>
    THEN [err |-> "ok", val |-> [t |-> "bool", v |-> FALSE]]
    ELSE IF /\ Len(s) >= 2
            /\ s[1] = 34 /\ s[Len(s)] = 34
            /\ \A i \in 2..(Len(s) - 1) : s[i] # 34
    THEN [err |-> "ok", val |-> [t |-> "str", v |-> SubSeq(s, 2, Len(s) - 1)]]
    ELSE IF s # <<>> /\ \A i \in 1..Len(s) : s[i] \in 97..122
    THEN [err |-> "ValueError", val |-> [t |-> "none", v |-> <<>>]]
    ELSE [err |-> "SyntaxError", val |-> [t |-> "none", v |-> <<>>]]

\* engine[key] = value: the configuration validates the value by the kind of
\* the option and stores what the validation gives (int(value) for an
\* integer option), or raises ValueError
engine_setitem(e, key, value) ==
    LET kind == OPTIONS[key]
        digits == value.t = "str" /\ value.v # <<>>
                      /\ \A i \in 1..Len(value.v) : value.v[i] \in NUMBERS_
        stored == CASE kind = "int" /\ value.t = "int" -> <<value>>
                    [] kind = "int" /\ value.t = "bool" ->
                           <<[t |-> "int", v |-> IF value.v THEN 1 ELSE 0]>>
                    [] kind = "int" /\ digits -> <<[t |-> "int", v |-> Decimal(value.v)]>>
                    [] kind = "bool" /\ value.t = "bool" -> <<value>>
                    [] kind = "choice" /\ value.t = "str"
                           /\ value.v \in {<<120>>, <<120, 44, 121>>} -> <<value>>
                    [] OTHER -> <<>>
    IN IF stored = <<>> THEN [e |-> e, err |-> "ValueError"]
       ELSE [e |-> [e EXCEPT ![key] = stored[1]], err |-> "ok"]

\* mutant: a value the option rejects puts the option back to its default
set_config_reset(e, cmdline) ==
    LET parts == split1(cmdline)
    IN IF Len(parts) # 2 THEN [e |-> e, err |-> "ValueError"]
       ELSE IF parts[1] \notin DOMAIN e THEN [e |-> e, err |-> "KeyError"]
       ELSE LET value_obj == literal_eval(parts[2])
            IN IF value_obj.err # "ok" THEN [e |-> e, err |-> value_obj.err]
               ELSE LET r == engine_setitem(e, parts[1], value_obj.val)
                    IN IF r.err = "ok" THEN r
                       ELSE [e |-> [e EXCEPT ![parts[1]] = DEFAULTS[parts[1]]],
                             err |-> r.err]

\* set_config(engine, cmdline): the configuration after the call and the
\* exception raised to the caller ("ok" when none)
set_config(e, cmdline) ==
    LET parts == split1(cmdline)
    IN IF Len(parts) # 2 THEN [e |-> e, err |-> "ValueError"]
       ELSE IF parts[1] \notin DOMAIN e THEN [e |-> e, err |-> "KeyError"]
       ELSE LET value_obj == literal_eval(parts[2])
            IN IF value_obj.err # "ok" THEN [e |-> e, err |-> value_obj.err]
               ELSE engine_setitem(e, parts[1], value_obj.val)

\* the value texts: 7, 10, True, False, "x", "x,y", "z", x, (
ValueTexts ==
    {<<55>>, <<49, 48>>, <<84, 114, 117, 101>>, <<70, 97, 108, 115, 101>>,
     <<34, 120, 34>>, <<34, 120, 44, 121, 34>>, <<34, 122, 34>>, <<120>>, <<40>>}

\* the command lines: an option or the unknown name "b", then a value text;
\* or a text without delimiter
CmdLines ==
    {o \o COMMAND_DELIMITER \o t : o \in (DOMAIN OPTIONS) \cup {<<98>>}, t \in ValueTexts}
        \cup {<<117>>, <<117, 55>>}

InitConfig ==
    /\ SSDIdle /\ NormIdle /\ CollIdle /\ SaveIdle /\ StrokeIdle
    /\ engine = DEFAULTS
    /\ cmd = [line |-> <<>>, err |-> "none"]

\* {PLOVER:SET_CONFIG:cmdline}
SetConfig ==
    \E line \in CmdLines :
        LET r == set_config(engine, line)
        IN /\ engine' = r.e
           /\ cmd' = [line |-> line, err |-> r.err]

NextConfig ==
    \/ SetConfig /\ UNCHANGED <<ssd_vars, n_vars, c_vars, s_vars, k_vars>>

SpecConfig == InitConfig /\ [][NextConfig]_vars

(***************************************************************************)
(* C17: set_config round trip.  For a command 'option,value' whose option  *)
(* is a config key and whose value is a literal the option accepts, after  *)
(* set_config reading engine[option] yields the value given in the         *)
(* command, up to the conversion of the option.  The literals are listed   *)
(* with the values they denote: 7, 10, True, False, 'x', 'x,y'.            *)
(***************************************************************************)
C17_RoundTrip ==
    \A o \in DOMAIN OPTIONS :
        \A l \in {[text |-> <<55>>, val |-> [t |-> "int", v |-> 7]],
                  [text |-> <<49, 48>>, val |-> [t |-> "int", v |-> 10]],
                  [text |-> <<84, 114, 117, 101>>, val |-> [t |-> "bool", v |-> TRUE]],
                  [text |-> <<70, 97, 108, 115, 101>>, val |-> [t |-> "bool", v |-> FALSE]],
                  [text |-> <<34, 120, 34>>, val |-> [t |-> "str", v |-> <<120>>]],
                  [text |-> <<34, 120, 44, 121, 34>>,
                   val |-> [t |-> "str", v |-> <<120, 44, 121>>]]} :
            LET accepted == engine_setitem(DEFAULTS, o, l.val)
            IN (cmd.line = o \o COMMAND_DELIMITER \o l.text /\ accepted.err = "ok") =>
                   /\ cmd.err = "ok"
                   /\ engine[o] = accepted.e[o]

\* the command p,"x,y" has set the option p to the string x,y
C17_Witness ==
    /\ cmd.line = <<112, 44, 34, 120, 44, 121, 34>>
    /\ cmd.err = "ok"
    /\ engine[<<112>>] = [t |-> "str", v |-> <<120, 44, 121>>]

(***************************************************************************)
(* C24: set_config is all-or-nothing.  A command without delimiter         *)
(* (ValueError), with a name that is no option (KeyError), with a value    *)
(* text that is no literal (SyntaxError for an unparsable text) or with a  *)
(* value the option rejects (ValueError) raises to the caller and leaves   *)
(* every option, the named one included, as it was; a successful call      *)
(* changes no option other than the named one.                             *)
(***************************************************************************)
C24_AllOrNothing ==
    [][(cmd' # cmd \/ engine' # engine) =>
         /\ cmd'.line \in {<<117>>, <<117, 55>>} =>
                cmd'.err = "ValueError" /\ engine' = engine
         /\ \A o \in (DOMAIN OPTIONS) \cup {<<98>>}, t \in ValueTexts :
                cmd'.line = o \o COMMAND_DELIMITER \o t =>
                    LET lit == literal_eval(t)
                    IN IF o \notin DOMAIN OPTIONS
                       THEN cmd'.err = "KeyError" /\ engine' = engine
                       ELSE IF lit.err # "ok"
                       THEN /\ cmd'.err = lit.err
                            /\ (t = <<40>> => cmd'.err = "SyntaxError")
                            /\ engine' = engine
                       ELSE IF engine_setitem(DEFAULTS, o, lit.val).err # "ok"
                       THEN cmd'.err = "ValueError" /\ engine' = engine
                       ELSE /\ cmd'.err = "ok"
                            /\ \A o2 \in (DOMAIN OPTIONS) \ {o} :
                                   engine'[o2] = engine[o2]
         /\ cmd'.err # "ok" => engine' = engine
      ]_vars

\* the command u,"z" was refused while the option u held 7, not its default,
\* and the other options were not at their defaults either
C24_Witness ==
    /\ cmd.line = <<117, 44, 34, 122, 34>>
    /\ cmd.err = "ValueError"
    /\ engine[<<117>>] = [t |-> "int", v |-> 7]
    /\ engine[<<97>>] = [t |-> "bool", v |-> TRUE]
    /\ engine[<<112>>] = [t |-> "str", v |-> <<120, 44, 121>>]

=============================================================================
